---- MODULE Spec2Model ----
(***************************************************************************)
(* Bronze-layer validation, remediation and upsert engine of Gamebot       *)
(* (gamebot_core/db_utils.py, gamebot_core/validation.py).                 *)
(*                                                                         *)
(* A dataframe is a record [columns, rows]: the set of column names and    *)
(* the sequence of rows, each row a function from the columns to values.   *)
(* Values are strings; NULL stands for None / NaN / pd.NA.                 *)
(***************************************************************************)
EXTENDS Integers, Sequences, FiniteSets, TLC

VARIABLES
    params,               \* environment, truncate_on_load, null semantics of the unique indexes
    store,                \* the bronze tables: table name -> sequence of stored rows
    REFERENCE_CACHE,      \* dataset -> set of reference tuples
    VALIDATION_SUMMARIES, \* dataset -> [status, issues]
    DATA_ISSUES,          \* the remediation ledger: sequence of [dataset, issue_type]
    current_run,          \* the number of the ingestion run in progress
    loadedInRun,          \* the datasets load_dataset_to_table was called for in this run
    nloads,               \* the calls of load_dataset_to_table so far (the wall clock)
    last,                 \* the outcome of the latest call of load_dataset_to_table
    prev,                 \* the outcome of the call before it
    am,                   \* the advantage_movement remediation under study
    up,                   \* the _upsert_dataframe call under study
    uq,                   \* the _check_unique_constraint call under study
    fk,                   \* the _run_foreign_key_checks rule evaluation under study
    vh,                   \* the vote_history remediation under study
    jn,                   \* the journeys remediation under study
    mn,                   \* the run of main() under study
    ev                    \* the environment guard call under study

pipeline == <<params, store, REFERENCE_CACHE, VALIDATION_SUMMARIES, DATA_ISSUES,
              current_run, loadedInRun, nloads, last, prev>>

vars == <<pipeline, am, up, uq, fk, vh, jn, mn, ev>>

NULL == "NULL"

\* the value of a variable that the specification at hand does not use
Idle == [phase |-> "idle"]

(***************************************************************************)
(* Bounds of the model.                                                    *)
(***************************************************************************)
MaxRows == 3
MaxFkRows == 2
MaxLoads == 2
MaxRuns == 2
MaxLoadRows == 2
MaxTableRows == 2
MaxBatch == 2
MaxHolders == 3
MaxTargets == 2
MaxAdvRows == 2
MaxVoteRows == 2
MaxJourneyRows == 2
MaxRefRows == 2
MaxStubRows == 2
MaxCalls == 3
MaxDatasets == 2

(***************************************************************************)
(* Generic dataframe helpers (pandas semantics).                           *)
(***************************************************************************)
Range(s) == {s[i] : i \in 1..Len(s)}

SeqsUpTo(S, n) == UNION {[1..m -> S] : m \in 0..n}

\* seq restricted to the positions satisfying Keep, order preserved (boolean-mask indexing)
RECURSIVE MaskSelect(_, _)
MaskSelect(rows, mask) ==
    IF rows = <<>> THEN <<>>
    ELSE IF mask[1] THEN <<rows[1]>> \o MaskSelect(Tail(rows), Tail(mask))
                    ELSE MaskSelect(Tail(rows), Tail(mask))

\* DataFrame.head(n)
Head_n(rows, n) == IF Len(rows) <= n THEN rows ELSE SubSeq(rows, 1, n)

\* row[cols]: the projection of a row on a tuple of columns
Project(row, cols) == [i \in 1..Len(cols) |-> row[cols[i]]]

\* Series.isna().any(axis=1) over the columns cols
AnyNull(row, cols) == \E c \in cols : row[c] = NULL

\* DataFrame.duplicated(subset=cols, keep=False): NaN groups with NaN
DuplicatedKeepFalse(rows, cols) ==
    [i \in 1..Len(rows) |->
        \E j \in 1..Len(rows) : j # i /\ Project(rows[j], cols) = Project(rows[i], cols)]

\* DataFrame.duplicated(subset=cols, keep="first")
DuplicatedKeepFirst(rows, cols) ==
    [i \in 1..Len(rows) |->
        \E j \in 1..(i - 1) : Project(rows[j], cols) = Project(rows[i], cols)]

\* DataFrame.drop_duplicates(subset=cols)
DropDuplicates(rows, cols) ==
    MaskSelect(rows, [i \in 1..Len(rows) |-> ~DuplicatedKeepFirst(rows, cols)[i]])

(***************************************************************************)
(* validation.py: _check_unique_constraint                                 *)
(***************************************************************************)
REMEDIATION_DETAIL_LIMIT == 200
SAMPLE_LIMIT == 10

\* the rows with a null in a unique column that is not nullable-exempt
MissingMask(rows, columns, nullable) ==
    [i \in 1..Len(rows) |-> AnyNull(rows[i], Range(columns) \ nullable)]

DfForCheck_KeepsExemptNulls(rows, nullable) == rows

\* df_for_check: rows whose nullable-exempt columns are all non-null
DfForCheck(rows, nullable) ==
    MaskSelect(rows, [i \in 1..Len(rows) |-> ~AnyNull(rows[i], nullable)])

\* _check_unique_constraint reporting a failed status without raising
CheckUniqueConstraint_ReportsOnly(rows, columns, nullable) ==
    [status |-> IF columns # <<>>
                   /\ (MaskSelect(rows, MissingMask(rows, columns, nullable)) # <<>>
                       \/ \E i \in 1..Len(DuplicatedKeepFalse(DfForCheck(rows, nullable), columns)) :
                             DuplicatedKeepFalse(DfForCheck(rows, nullable), columns)[i])
                THEN "failed" ELSE "passed",
     raised |-> FALSE, missing_sample |-> <<>>, duplicate_sample |-> <<>>]

\* result of _check_unique_constraint; raised = the ValueError at the end
CheckUniqueConstraint(rows, columns, nullable) ==
    IF columns = <<>> THEN [status |-> "passed", raised |-> FALSE,
                            missing_sample |-> <<>>, duplicate_sample |-> <<>>]
    ELSE
    LET missing == MaskSelect(rows, MissingMask(rows, columns, nullable))
        checked == DfForCheck(rows, nullable)
        dups    == MaskSelect(checked, DuplicatedKeepFalse(checked, columns))
        failed  == missing # <<>> \/ dups # <<>>
    IN  [status  |-> IF failed THEN "failed" ELSE "passed",
         raised  |-> failed,
         missing_sample   |-> Head_n(missing, SAMPLE_LIMIT),
         duplicate_sample |-> Head_n(dups, SAMPLE_LIMIT)]

(***************************************************************************)
(* validation.py: _register_reference_snapshot, _run_foreign_key_checks    *)
(*                                                                         *)
(* A foreign-key rule is [target_columns, reference_dataset,               *)
(* reference_columns, allow_null]. REFERENCE_CACHE maps the datasets that  *)
(* registered a snapshot to the set of their reference tuples; .empty and  *)
(* membership are all the code asks of a snapshot.                         *)
(***************************************************************************)
\* df[list(columns)].dropna().drop_duplicates(), kept as the set of its tuples
ReferenceSnapshot(rows, columns) ==
    {Project(rows[i], columns) :
        i \in {j \in 1..Len(rows) : ~AnyNull(rows[j], Range(columns))}}

FirstOccurrences_NoDedup(tuples, seen) == tuples

\* tuples of the sequence with later repetitions removed (the seen_unmatched loop)
RECURSIVE FirstOccurrences(_, _)
FirstOccurrences(tuples, seen) ==
    IF tuples = <<>> THEN <<>>
    ELSE IF tuples[1] \in seen THEN FirstOccurrences(Tail(tuples), seen)
         ELSE <<tuples[1]>> \o FirstOccurrences(Tail(tuples), seen \cup {tuples[1]})

\* null_mask = df[target_cols].isna().any(axis=1)
FkNullMask(rule, df) ==
    [i \in 1..Len(df.rows) |-> AnyNull(df.rows[i], Range(rule.target_columns))]

FkSubset_KeepsNulls(rule, df) == df.rows

\* subset = df[target_cols].dropna(), on either branch of allow_null
FkSubset(rule, df) ==
    MaskSelect(df.rows, [i \in 1..Len(df.rows) |-> ~FkNullMask(rule, df)[i]])

\* one iteration of the rule loop of _run_foreign_key_checks
FkCheckRule(rule, df, cache) ==
    LET base == [columns |-> rule.target_columns,
                 referenced_table |-> rule.reference_dataset,
                 allow_null |-> rule.allow_null,
                 status |-> "skipped", reason |-> "none",
                 null_count |-> 0, null_samples |-> <<>>, sample_records |-> <<>>]
        tcols == Range(rule.target_columns)
    IN
    IF rule.reference_dataset \notin DOMAIN cache
          \/ cache[rule.reference_dataset] = {}
    THEN [base EXCEPT !.reason = "reference_missing"]
    ELSE IF ~(tcols \subseteq df.columns)
    THEN [base EXCEPT !.reason = "target_missing"]
    ELSE
    LET null_rows == MaskSelect(df.rows, FkNullMask(rule, df))
        reported  == rule.allow_null /\ null_rows # <<>>
        withNulls == [base EXCEPT
                        !.null_count = IF reported THEN Len(null_rows) ELSE 0,
                        !.null_samples = IF reported
                            THEN Head_n([i \in 1..Len(null_rows) |->
                                    Project(null_rows[i], rule.target_columns)], SAMPLE_LIMIT)
                            ELSE <<>>]
        subset == FkSubset(rule, df)
        tuples == [i \in 1..Len(subset) |-> Project(subset[i], rule.target_columns)]
        reference_keys == cache[rule.reference_dataset]
        unmatched == FirstOccurrences(
                        MaskSelect(tuples, [i \in 1..Len(tuples) |->
                                               tuples[i] \notin reference_keys]), {})
    IN  IF subset = <<>> THEN [withNulls EXCEPT !.status = "passed"]
        ELSE IF unmatched # <<>>
             THEN [withNulls EXCEPT !.status = "failed",
                                    !.sample_records = Head_n(unmatched, SAMPLE_LIMIT)]
             ELSE [withNulls EXCEPT !.status = "passed"]

\* _run_foreign_key_checks: one result per configured rule, in order
RunForeignKeyChecks(rules, df, cache) ==
    [i \in 1..Len(rules) |-> FkCheckRule(rules[i], df, cache)]

(***************************************************************************)
(* Values and their conversions.                                           *)
(*                                                                         *)
(* A text value is a token; "c1_", "s1_", "t1_" stand for the token with   *)
(* surrounding whitespace, "none" for a textual null marker. A numeric     *)
(* value is "1", "2", "7", "8" (integral), "1.5" (fractional) or "x" (not  *)
(* a number).                                                              *)
(***************************************************************************)
\* The segments a comma-separated text of the model is made of: a token,
\* bare or padded with a blank on one side, or nothing but blanks.
StrippedSegments == {"a", "b", "c", "none", "None", "null", ""}
Segments == UNION {{t, " " \o t, t \o " "} : t \in StrippedSegments}

\* str.strip() on a segment
StripSegment(v) == CHOOSE t \in StrippedSegments : v \in {t, " " \o t, t \o " "}

\* str(value).strip()
Strip(v) ==
    CASE v = "c1_" -> "c1"
      [] v = "s1_" -> "s1"
      [] v = "t1_" -> "t1"
      [] v \in Segments -> StripSegment(v)
      [] OTHER -> v

\* str.lower() on the values of the model
Lower(v) == IF v = "None" THEN "none" ELSE v

\* the textual null markers {"none", "null", "nan"} and the empty string
NullMarkers == {"none", "null", "nan", ""}

\* _clean_castaway_id, and the text / uuid branch of preprocess_dataframe
CleanText(v) ==
    IF v = NULL THEN NULL
    ELSE IF Lower(Strip(v)) \in NullMarkers THEN NULL ELSE Strip(v)

Integral == {"1", "2", "3", "7", "8", "12", "13", "25", "26"}
Fractional == {"1.5"}

\* pd.to_numeric(value, errors="coerce")
ToNumeric(v) == IF v \in Integral \cup Fractional THEN v ELSE NULL

\* dtype pandas infers for a raw column from its values
InferDtype(values) ==
    IF \E v \in values : v # NULL /\ v \notin Integral \cup Fractional THEN "object"
    ELSE IF values = {} \/ values = {NULL} THEN "object"
    ELSE IF \E v \in values : v = NULL \/ v \in Fractional THEN "float64"
    ELSE "int64"

ColumnValues(rows, c) == {rows[i][c] : i \in 1..Len(rows)}

\* the dataframe with column c set to the values, one for each row, its
\* dtype set to dt
Assign(df, c, values, dt) ==
    [columns |-> df.columns \cup {c},
     dtypes  |-> [d \in df.columns \cup {c} |-> IF d = c THEN dt ELSE df.dtypes[d]],
     rows    |-> [i \in 1..Len(df.rows) |->
                    [d \in df.columns \cup {c} |->
                        IF d = c THEN values[i] ELSE df.rows[i][d]]]]

\* df with its rows replaced
WithRows(df, rows) == [df EXCEPT !.rows = rows]

\* df[cols] / df.drop(columns=...)
Restrict(df, cols) ==
    [columns |-> cols,
     dtypes  |-> [d \in cols |-> df.dtypes[d]],
     rows    |-> [i \in 1..Len(df.rows) |-> [d \in cols |-> df.rows[i][d]]]]

(***************************************************************************)
(* db_utils.py: preprocess_dataframe                                       *)
(***************************************************************************)
\* one column coerced to its database type; a failed conversion (the
\* except branch) leaves the column as it was
PreprocessColumn(df, c, dbType) ==
    IF dbType \in {"integer", "bigint"} THEN
        \* .astype("Int64") raises on a fractional value
        IF \E v \in ColumnValues(df.rows, c) : v \in Fractional THEN df
        ELSE Assign(df, c, [i \in 1..Len(df.rows) |-> ToNumeric(df.rows[i][c])], "Int64")
    ELSE IF dbType \in {"timestamp with time zone", "timestamp without time zone"} THEN
        Assign(df, c, [i \in 1..Len(df.rows) |-> df.rows[i][c]], "object")
    ELSE
        Assign(df, c, [i \in 1..Len(df.rows) |-> CleanText(df.rows[i][c])], "object")

RECURSIVE PreprocessColumns(_, _, _)
PreprocessColumns(df, todo, types) ==
    IF todo = {} THEN df
    ELSE LET c == CHOOSE x \in todo : TRUE
         IN  PreprocessColumns(PreprocessColumn(df, c, types[c]), todo \ {c}, types)

\* types: column -> data_type of the target table (get_db_column_types)
PreprocessDataframe(df, types) ==
    PreprocessColumns(df, df.columns \cap DOMAIN types, types)

(***************************************************************************)
(* db_utils.py: validate_schema, _align_with_schema                        *)
(*                                                                         *)
(* A table schema is a sequence of [name, type, pk] in ordinal order.      *)
(***************************************************************************)
SchemaColumns(schema) == {schema[i].name : i \in 1..Len(schema)}
SchemaEntry(schema, c) == schema[CHOOSE i \in 1..Len(schema) : schema[i].name = c]

\* get_db_column_types: column -> data_type
SchemaTypes(schema) == [c \in SchemaColumns(schema) |-> SchemaEntry(schema, c).type]

\* the primary-key columns (db_pks)
SchemaPks(schema) == {c \in SchemaColumns(schema) : SchemaEntry(schema, c).pk}

\* type_map of validate_schema; "none" where the map has no entry
ExpectedDtype(dbType) ==
    CASE dbType \in {"character varying", "text", "uuid"} -> "object"
      [] dbType = "boolean" -> "bool"
      [] dbType \in {"integer", "bigint"} -> "int"
      [] dbType \in {"double precision", "numeric", "real"} -> "float"
      [] dbType \in {"date", "timestamp without time zone",
                     "timestamp with time zone"} -> "datetime"
      [] OTHER -> "none"

\* expected in actual.lower(), over the dtype names pandas produces here
DtypeContains(expected, actual) ==
    CASE expected = "object"   -> actual = "object"
      [] expected = "bool"     -> actual \in {"bool", "boolean"}
      [] expected = "int"      -> actual \in {"int64", "Int64"}
      [] expected = "float"    -> actual = "float64"
      [] expected = "datetime" -> actual = "datetime64[ns]"
      [] OTHER -> FALSE

\* the columns of type_issues
TypeMismatches(df, schema) ==
    {c \in df.columns \cap SchemaColumns(schema) :
        LET expected == ExpectedDtype(SchemaEntry(schema, c).type)
            actual   == df.dtypes[c]
        IN  /\ expected # "none"
            /\ ~DtypeContains(expected, actual)
            /\ ~(expected = "datetime" /\ actual = "object")}

MissingColumns_NoPkExemption(df, schema) == SchemaColumns(schema) \ df.columns

\* missing: schema columns absent from the dataframe, primary keys exempt
MissingColumns(df, schema) ==
    {c \in SchemaColumns(schema) \ df.columns : c \notin SchemaPks(schema)}

ValidateSchema(df, schema) ==
    LET missing == MissingColumns(df, schema)
        issues  == TypeMismatches(df, schema)
    IN  [is_valid |-> missing = {} /\ issues = {},
         missing_columns |-> missing,
         extra_columns   |-> df.columns \ SchemaColumns(schema),
         type_mismatches |-> issues]

\* _align_with_schema: extra columns dropped
AlignWithSchema(df, schema) == Restrict(df, df.columns \cap SchemaColumns(schema))

(***************************************************************************)
(* db_utils.py: _upsert_dataframe                                          *)
(*                                                                         *)
(* A stored table is the sequence of its rows. INSERT ... ON CONFLICT      *)
(* (conflict_columns) DO UPDATE SET <non-key columns> = EXCLUDED.<...>     *)
(* RETURNING <keys>, (xmax = 0) is one statement over the whole batch      *)
(* (the batch is below execute_values' page size). The unique index that   *)
(* arbitrates the conflict either treats NULLs as distinct (the default)   *)
(* or not (NULLS NOT DISTINCT): the table definition decides, not the      *)
(* loader.                                                                 *)
(***************************************************************************)
\* the record as a stored row: absent columns take their default (null)
StoredRow(rec, recCols, tableCols) ==
    [c \in tableCols |-> IF c \in recCols THEN rec[c] ELSE NULL]

Conflicts_FirstColumnOnly(e, rec, conflict_columns, nulls_distinct) ==
    e[conflict_columns[1]] = rec[conflict_columns[1]]

\* does the stored row e arbitrate a conflict with the proposed record
Conflicts(e, rec, conflict_columns, nulls_distinct) ==
    /\ Project(e, conflict_columns) = Project(rec, conflict_columns)
    /\ ~(nulls_distinct /\ AnyNull(rec, Range(conflict_columns)))

\* acc = [rows, touched, inserted_keys, updated_keys, ok]
RECURSIVE UpsertRows(_, _, _, _, _, _)
UpsertRows(acc, records, recCols, tableCols, conflict_columns, nulls_distinct) ==
    IF records = <<>> \/ ~acc.ok THEN acc
    ELSE
    LET rec  == records[1]
        rest == Tail(records)
        update_cols == recCols \ Range(conflict_columns)
        hits == IF conflict_columns = <<>> THEN {}
                ELSE {i \in 1..Len(acc.rows) :
                        Conflicts(acc.rows[i], rec, conflict_columns, nulls_distinct)}
        returning == IF conflict_columns = <<>> THEN <<>>
                     ELSE Project(rec, conflict_columns)
    IN
    IF hits = {} THEN
        UpsertRows([acc EXCEPT
                      !.rows = Append(acc.rows, StoredRow(rec, recCols, tableCols)),
                      !.touched = acc.touched \cup {Len(acc.rows) + 1},
                      !.inserted_keys = Append(acc.inserted_keys, returning)],
                   rest, recCols, tableCols, conflict_columns, nulls_distinct)
    ELSE
    LET i == CHOOSE x \in hits : \A y \in hits : x <= y
    IN  IF update_cols = {} THEN
            \* DO NOTHING: the row is skipped and returns nothing
            UpsertRows(acc, rest, recCols, tableCols, conflict_columns, nulls_distinct)
        ELSE IF i \in acc.touched THEN
            \* "ON CONFLICT DO UPDATE command cannot affect row a second time"
            [acc EXCEPT !.ok = FALSE]
        ELSE
            UpsertRows([acc EXCEPT
                          !.rows[i] = [c \in tableCols |->
                                         IF c \in update_cols THEN rec[c] ELSE acc.rows[i][c]],
                          !.touched = acc.touched \cup {i},
                          !.updated_keys = Append(acc.updated_keys, returning)],
                       rest, recCols, tableCols, conflict_columns, nulls_distinct)

\* the statement, then conn.commit(); a failed statement changes nothing
UpsertDataframe(tableRows, df, tableCols, conflict_columns, nulls_distinct) ==
    LET start == [rows |-> tableRows, touched |-> {}, inserted_keys |-> <<>>,
                  updated_keys |-> <<>>, ok |-> TRUE]
        done  == UpsertRows(start, df.rows, df.columns, tableCols,
                            conflict_columns, nulls_distinct)
    IN  IF done.ok
        THEN [ok |-> TRUE, rows |-> done.rows,
              inserted_keys |-> done.inserted_keys, updated_keys |-> done.updated_keys,
              inserted |-> Len(done.inserted_keys), updated |-> Len(done.updated_keys)]
        ELSE [ok |-> FALSE, rows |-> tableRows,
              inserted_keys |-> <<>>, updated_keys |-> <<>>,
              inserted |-> 0, updated |-> 0]

(***************************************************************************)
(* Configuration consumed by the loader (params.table_config,              *)
(* params.dataset_order, the bronze DDL). The model loads five datasets;    *)
(* challenge_description is the parent table of the challenge_results      *)
(* stubs.                                                                  *)
(***************************************************************************)
Datasets == {"castaway_details", "castaway_scores", "tribe_mapping",
             "auction_details", "challenge_results"}

Tables == Datasets \cup {"challenge_description", "vote_history"}

\* the data columns of each bronze table, in ordinal order
DataColumns(t) ==
    CASE t = "castaway_details" ->
            <<[name |-> "castaway_id", type |-> "text"],
              [name |-> "full_name", type |-> "text"]>>
      [] t = "castaway_scores" ->
            <<[name |-> "version_season", type |-> "text"],
              [name |-> "castaway_id", type |-> "text"],
              [name |-> "score", type |-> "integer"]>>
      [] t = "tribe_mapping" ->
            <<[name |-> "version_season", type |-> "text"],
              [name |-> "castaway_id", type |-> "text"],
              [name |-> "tribe", type |-> "text"]>>
      [] t = "auction_details" ->
            <<[name |-> "version_season", type |-> "text"],
              [name |-> "auction_num", type |-> "integer"],
              [name |-> "item", type |-> "text"]>>
      [] t = "challenge_results" ->
            <<[name |-> "version_season", type |-> "text"],
              [name |-> "challenge_id", type |-> "integer"],
              [name |-> "sog_id", type |-> "integer"],
              [name |-> "challenge_type", type |-> "text"],
              [name |-> "result", type |-> "text"]>>
      [] t = "challenge_description" ->
            <<[name |-> "version_season", type |-> "text"],
              [name |-> "challenge_id", type |-> "integer"],
              [name |-> "challenge_type", type |-> "text"],
              [name |-> "name", type |-> "text"]>>
      [] t = "journeys" ->
            <<[name |-> "version_season", type |-> "text"],
              [name |-> "episode", type |-> "integer"],
              [name |-> "sog_id", type |-> "integer"],
              [name |-> "event", type |-> "text"],
              [name |-> "castaway_id", type |-> "text"],
              [name |-> "castaway", type |-> "text"]>>
      [] t = "vote_history" ->
            <<[name |-> "version_season", type |-> "text"],
              [name |-> "challenge_id", type |-> "integer"],
              [name |-> "sog_id", type |-> "integer"],
              [name |-> "castaway_id", type |-> "text"]>>

\* information_schema.columns of a bronze table: a generated primary key,
\* the data columns, and the lineage columns
TableSchema(t) ==
    <<[name |-> "row_id", type |-> "bigint", pk |-> TRUE]>>
    \o [i \in 1..Len(DataColumns(t)) |->
          [name |-> DataColumns(t)[i].name, type |-> DataColumns(t)[i].type, pk |-> FALSE]]
    \o <<[name |-> "source_dataset", type |-> "text", pk |-> FALSE],
         [name |-> "ingest_run_id", type |-> "uuid", pk |-> FALSE],
         [name |-> "ingested_at", type |-> "timestamp with time zone", pk |-> FALSE]>>

\* table_config[...]["unique_constraint_columns"]
UniqueConstraintCols(ds) ==
    CASE ds = "castaway_details"  -> <<"castaway_id">>
      [] ds = "castaway_scores"   -> <<"version_season", "castaway_id">>
      [] ds = "tribe_mapping"     -> <<"version_season", "castaway_id", "tribe">>
      [] ds = "auction_details"   -> <<"version_season", "auction_num", "item">>
      [] ds = "challenge_results" -> <<"version_season", "sog_id", "challenge_id">>
      [] ds = "journeys"          -> <<"version_season", "episode", "sog_id", "castaway_id">>
      [] ds = "challenge_description" -> <<"version_season", "challenge_id">>
      [] OTHER -> <<>>

\* table_config[...]["unique_constraint_nullable_columns"]
NullableUniqueColumns(ds) ==
    IF ds = "tribe_mapping" THEN {"castaway_id"} ELSE {}

\* DEDUPLICATION_DATASETS
DEDUPLICATION_DATASETS == {"auction_details"}

\* DATASET_CHECKS, each rule "metric(column) = 0"
DATASET_CHECKS(ds) ==
    CASE ds = "castaway_details" ->
            <<[metric |-> "missing_count", column |-> "castaway_id"],
              [metric |-> "duplicate_count", column |-> "castaway_id"]>>
      [] ds = "tribe_mapping" ->
            <<[metric |-> "missing_count", column |-> "version_season"],
              [metric |-> "missing_count", column |-> "tribe"]>>
      [] ds = "journeys" ->
            <<[metric |-> "missing_count", column |-> "version_season"],
              [metric |-> "missing_count", column |-> "sog_id"]>>
      [] ds = "challenge_description" ->
            <<[metric |-> "missing_count", column |-> "challenge_id"],
              [metric |-> "missing_count", column |-> "version_season"]>>
      [] ds = "vote_history" ->
            <<[metric |-> "missing_count", column |-> "version_season"]>>
      [] ds = "auction_details" ->
            <<[metric |-> "missing_count", column |-> "version_season"],
              [metric |-> "missing_count", column |-> "auction_num"],
              [metric |-> "missing_count", column |-> "item"]>>
      [] OTHER -> <<>>

\* FOREIGN_KEY_RULES
FOREIGN_KEY_RULES(ds) ==
    IF ds \in {"castaway_scores", "journeys"} THEN
        <<[target_columns |-> <<"castaway_id">>, reference_dataset |-> "castaway_details",
           reference_columns |-> <<"castaway_id">>, allow_null |-> FALSE],
          [target_columns |-> <<"version_season">>, reference_dataset |-> "season_summary",
           reference_columns |-> <<"version_season">>, allow_null |-> FALSE]>>
    ELSE IF ds = "vote_history" THEN
        <<[target_columns |-> <<"castaway_id">>, reference_dataset |-> "castaway_details",
           reference_columns |-> <<"castaway_id">>, allow_null |-> TRUE],
          [target_columns |-> <<"vote_id">>, reference_dataset |-> "castaway_details",
           reference_columns |-> <<"castaway_id">>, allow_null |-> TRUE],
          [target_columns |-> <<"voted_out_id">>, reference_dataset |-> "castaway_details",
           reference_columns |-> <<"castaway_id">>, allow_null |-> TRUE],
          [target_columns |-> <<"version_season", "challenge_id">>,
           reference_dataset |-> "challenge_description",
           reference_columns |-> <<"version_season", "challenge_id">>,
           allow_null |-> TRUE]>>
    ELSE <<>>

\* reference_columns_map of _register_reference_snapshot
ReferenceColumns(ds) ==
    CASE ds = "castaway_details"  -> <<"castaway_id">>
      [] ds = "challenge_results" -> <<"version_season", "sog_id", "challenge_id">>
      [] ds = "challenge_description" -> <<"version_season", "challenge_id">>
      [] OTHER -> <<>>

(***************************************************************************)
(* db_utils.py: _apply_dataset_specific_rules,                             *)
(* _apply_unique_key_deduplication                                         *)
(***************************************************************************)
\* the columns of the tuple cols that the dataframe has, in order
PresentCols(cols, df) == SelectSeq(cols, LAMBDA c : c \in df.columns)

\* df["castaway_id"].map(_clean_castaway_id), when the column is there
CleanCastawayId(df) ==
    IF "castaway_id" \in df.columns
    THEN Assign(df, "castaway_id",
                [i \in 1..Len(df.rows) |-> CleanText(df.rows[i]["castaway_id"])], "object")
    ELSE df

\* the castaway_scores branch: castaway_id cleaned, duplicates on
\* (version_season, castaway_id) dropped
CastawayScoresRules(df) ==
    LET cleaned == CleanCastawayId(df)
        unique_cols == PresentCols(<<"version_season", "castaway_id">>, cleaned)
    IN  IF unique_cols = <<>> THEN cleaned
        ELSE WithRows(cleaned, DropDuplicates(cleaned.rows, unique_cols))

\* the tail of the function: source_dataset filled or added
WithSourceDataset(ds, df) ==
    LET f(row) == IF "source_dataset" \in df.columns /\ row["source_dataset"] # NULL
                  THEN row["source_dataset"] ELSE ds
    IN  Assign(df, "source_dataset", [i \in 1..Len(df.rows) |-> f(df.rows[i])], "object")

\* the dataframe returned by _apply_dataset_specific_rules
ApplyDatasetSpecificRules(ds, df) ==
    WithSourceDataset(ds, CASE ds = "castaway_scores" -> CastawayScoresRules(df)
                            [] ds = "auction_details" -> CleanCastawayId(df)
                            [] OTHER -> df)

\* the remediation events the rules register for the dataset itself
RulesIssues(ds, df) ==
    IF ds = "castaway_scores"
          /\ Len(CastawayScoresRules(df).rows) < Len(df.rows)
    THEN <<[dataset |-> ds, issue_type |-> "deduplicated_rows",
            rows_removed |-> Len(df.rows) - Len(CastawayScoresRules(df).rows),
            before |-> Len(df.rows),
            after |-> Len(CastawayScoresRules(df).rows)]>>
    ELSE <<>>

\* _apply_unique_key_deduplication: only the datasets of DEDUPLICATION_DATASETS
ApplyUniqueKeyDeduplication(ds, df) ==
    IF ds \notin DEDUPLICATION_DATASETS THEN df
    ELSE LET subset_cols == PresentCols(UniqueConstraintCols(ds), df)
         IN  IF subset_cols = <<>> THEN df
             ELSE WithRows(df, DropDuplicates(df.rows, subset_cols))

\* the event it registers: the counts, the rows removed and, of the rows
\* with a duplicated key, those kept, each cut at REMEDIATION_DETAIL_LIMIT
DeduplicationIssues(ds, df) ==
    IF Len(ApplyUniqueKeyDeduplication(ds, df).rows) < Len(df.rows)
    THEN LET subset_cols == PresentCols(UniqueConstraintCols(ds), df)
             removed == DuplicatedKeepFirst(df.rows, subset_cols)
             duplicate == DuplicatedKeepFalse(df.rows, subset_cols)
         IN  <<[dataset |-> ds, issue_type |-> "deduplicated_rows",
                rows_removed |-> Len(df.rows)
                                 - Len(ApplyUniqueKeyDeduplication(ds, df).rows),
                before |-> Len(df.rows),
                after |-> Len(ApplyUniqueKeyDeduplication(ds, df).rows),
                removed_rows |-> Head_n(MaskSelect(df.rows, removed),
                                        REMEDIATION_DETAIL_LIMIT),
                result_rows |->
                    Head_n(MaskSelect(df.rows,
                                      [i \in 1..Len(df.rows) |->
                                          duplicate[i] /\ ~removed[i]]),
                           REMEDIATION_DETAIL_LIMIT)]>>
    ELSE <<>>

(***************************************************************************)
(* db_utils.py: _apply_dataset_specific_rules, the advantage_movement      *)
(* branch.                                                                 *)
(*                                                                         *)
(* A comma-separated text cell is the sequence of its segments, the pieces *)
(* between the commas, blanks included: "a, b" is <<"a", " b">>, the empty *)
(* string is <<"">>, and None is NoText. A list element or an exploded     *)
(* cell is a token, or NULL for None.                                      *)
(***************************************************************************)
NoText == <<>>

RECURSIVE Concat(_)
Concat(seqs) == IF seqs = <<>> THEN <<>> ELSE Head(seqs) \o Concat(Tail(seqs))

\* ", ".join(ordered)
JoinIds(ordered) ==
    [i \in 1..Len(ordered) |-> IF i = 1 THEN ordered[i] ELSE " " \o ordered[i]]

\* the truth value of a list element: neither None nor the empty string
Truthy(v) == v # NULL /\ v # ""

\* _split_list, and _split_targets, which has the same body
SplitList(value) ==
    IF value = NoText THEN <<NULL>>
    ELSE IF Len(value) = 1 /\ Lower(StripSegment(value[1])) \in {"", "nan", "none"}
    THEN <<NULL>>
    ELSE LET parts   == [i \in 1..Len(value) |-> StripSegment(value[i])]
             cleaned == SelectSeq(parts, LAMBDA part : part # "")
         IN  IF cleaned = <<>> THEN <<NULL>> ELSE cleaned

\* _align_list_lengths, for the list _split_list made of the name cell
AlignListLengths(base_list, other_list) ==
    [i \in 1..Len(base_list) |->
        IF i <= Len(other_list) THEN other_list[i] ELSE other_list[Len(other_list)]]

\* _stringify_ids: the segments or tokens split and stripped, empties and
\* repetitions dropped, joined again; None when nothing is left
StringifyIds(entries) ==
    LET tokens  == SelectSeq(entries, LAMBDA e : e # NULL)
        parts   == [i \in 1..Len(tokens) |-> StripSegment(tokens[i])]
        ordered == FirstOccurrences(SelectSeq(parts, LAMBDA part : part # ""), {})
    IN  IF ordered = <<>> THEN NoText ELSE JoinIds(ordered)

\* _merge_co_strings
MergeCoStrings(existing, additional) == StringifyIds(existing \o additional)

ComputeCoList_KeepsSelf(values) ==
    [i \in 1..Len(values) |->
        IF Truthy(values[i]) THEN StringifyIds(SelectSeq(values, Truthy)) ELSE NoText]

\* _compute_co_list: for every value the other values of the list
ComputeCoList(values) ==
    LET cleaned == SelectSeq(values, Truthy)
    IN  [i \in 1..Len(values) |->
            IF cleaned # <<>> /\ Truthy(values[i])
            THEN StringifyIds(SelectSeq(cleaned, LAMBDA other : other # values[i]))
            ELSE NoText]

\* a boolean flag column read with fillna(False).astype(bool)
Flag(df, row, c) == IF c \in df.columns THEN row[c] = TRUE ELSE FALSE

\* lines 1311-1322: the flag columns and co_castaway_ids made present
WithAdvantageDefaults(df) ==
    LET cols == df.columns \cup {"joint_play", "multi_target_play", "co_castaway_ids"}
    IN  [columns |-> cols,
         dtypes  |-> [c \in cols |->
                        IF c \in {"joint_play", "multi_target_play"} THEN "bool"
                        ELSE IF c \in df.columns THEN df.dtypes[c] ELSE "object"],
         rows    |-> [i \in 1..Len(df.rows) |->
                        [c \in cols |->
                            IF c \in {"joint_play", "multi_target_play"}
                            THEN Flag(df, df.rows[i], c)
                            ELSE IF c \in df.columns THEN df.rows[i][c] ELSE NoText]]]

\* joint_mask of one row
JointMask(row) == Len(SelectSeq(SplitList(row["castaway_id"]), Truthy)) > 1

\* lines 1394-1475: one row per holder of the castaway_id cell
ExplodeHolders(df) ==
    LET exploded(row) ==
            LET holders   == SplitList(row["castaway_id"])
                co_values == ComputeCoList(holders)
                names     == IF "castaway" \in df.columns
                             THEN AlignListLengths(holders, SplitList(row["castaway"]))
                             ELSE <<>>
            IN  [p \in 1..Len(holders) |->
                    [c \in df.columns |->
                        CASE c = "castaway_id" -> CleanText(holders[p])
                          [] c = "co_castaway_ids" -> StringifyIds(co_values[p])
                          [] c = "castaway" -> names[p]
                          [] c = "joint_play" -> row["joint_play"] \/ JointMask(row)
                          [] OTHER -> row[c]]]
    IN  IF "castaway_id" \notin df.columns THEN df
        ELSE WithRows(df, Concat([i \in 1..Len(df.rows) |-> exploded(df.rows[i])]))

\* multi_target_mask of one row
MultiTargetMask(row) ==
    Len(SelectSeq(SplitList(row["played_for_id"]), LAMBDA v : v # NULL)) > 1

\* co_target_lists of one row: the existing co-identities merged with the
\* other targets of the row
CoTargetList(row) ==
    LET targets  == SplitList(row["played_for_id"])
        cleaned  == SelectSeq(targets, Truthy)
        existing == StringifyIds(row["co_castaway_ids"])
    IN  [p \in 1..Len(targets) |->
            MergeCoStrings(existing,
                IF Truthy(targets[p])
                THEN StringifyIds(SelectSeq(cleaned, LAMBDA other : other # targets[p]))
                ELSE NoText)]

\* _clean_target
CleanTarget(value, valid_castaway_ids) ==
    IF CleanText(value) \in valid_castaway_ids THEN CleanText(value) ELSE NULL

\* lines 1477-1587: one row per target of the played_for_id cell, the
\* target not yet cleaned
ExplodeTargets(df) ==
    LET exploded(row) ==
            LET targets   == SplitList(row["played_for_id"])
                co_values == CoTargetList(row)
                names     == IF "played_for" \in df.columns
                             THEN AlignListLengths(targets, SplitList(row["played_for"]))
                             ELSE <<>>
            IN  [p \in 1..Len(targets) |->
                    [c \in df.columns |->
                        CASE c = "played_for_id" -> targets[p]
                          [] c = "co_castaway_ids" -> StringifyIds(co_values[p])
                          [] c = "played_for" -> names[p]
                          [] c = "multi_target_play" ->
                                row["multi_target_play"] \/ MultiTargetMask(row)
                          [] OTHER -> row[c]]]
    IN  IF "played_for_id" \notin df.columns THEN df
        ELSE WithRows(df, Concat([i \in 1..Len(df.rows) |-> exploded(df.rows[i])]))

\* lines 1589-1636: targets unknown to castaway_details set to None
CleanTargets(df, valid_castaway_ids) ==
    LET f(row) == CleanTarget(row["played_for_id"], valid_castaway_ids)
    IN  IF "played_for_id" \notin df.columns THEN df
        ELSE Assign(df, "played_for_id", [i \in 1..Len(df.rows) |-> f(df.rows[i])], "object")

\* lines 1667-1686: duplicates on the columns of the movement key dropped
AdvantageUniqueCols(df) ==
    PresentCols(<<"version_season", "castaway_id", "advantage_id",
                  "sequence_id", "played_for_id">>, df)

DropAdvantageDuplicates(df) ==
    IF AdvantageUniqueCols(df) = <<>> THEN df
    ELSE WithRows(df, DropDuplicates(df.rows, AdvantageUniqueCols(df)))

\* the advantage_movement branch as a whole
AdvantageMovementRules(df, valid_castaway_ids) ==
    DropAdvantageDuplicates(
        CleanTargets(ExplodeTargets(ExplodeHolders(WithAdvantageDefaults(df))),
                     valid_castaway_ids))

\* the remediation events the branch registers, in order
AdvantageIssues(df, valid_castaway_ids) ==
    LET d0 == WithAdvantageDefaults(df)
        d1 == ExplodeHolders(d0)
        d2 == ExplodeTargets(d1)
        d3 == CleanTargets(d2, valid_castaway_ids)
        event(cond, kind) ==
            IF cond THEN <<[dataset |-> "advantage_movement", issue_type |-> kind]>>
            ELSE <<>>
    IN  event("castaway_id" \in df.columns
                 /\ \E i \in 1..Len(d0.rows) : JointMask(d0.rows[i]),
              "multi_holder_advantage_split")
        \o event("played_for_id" \in df.columns
                    /\ \E i \in 1..Len(d1.rows) : MultiTargetMask(d1.rows[i]),
                 "multi_target_advantage_split")
        \o event("played_for_id" \in df.columns
                    /\ \E i \in 1..Len(d2.rows) :
                          d2.rows[i]["played_for_id"] # NULL
                             /\ d3.rows[i]["played_for_id"] = NULL,
                 "invalid_advantage_targets")
        \o event(Len(DropAdvantageDuplicates(d3).rows) < Len(d3.rows),
                 "deduplicated_rows")

(***************************************************************************)
(* db_utils.py: _safe_int, _load_challenge_reference_data and the          *)
(* vote_history branch of _apply_dataset_specific_rules.                   *)
(*                                                                         *)
(* The two bronze tables the branch reads are sets of rows here: the code  *)
(* folds what fetchall() returns into a set and a dict of sets.            *)
(***************************************************************************)
\* int(float(text)) of the fractional values of the model
Truncated(v) == IF v = "1.5" THEN "1" ELSE v

\* _safe_int
SafeInt(value) ==
    IF value = NULL THEN NULL
    ELSE IF Strip(value) \in Integral THEN Strip(value)
    ELSE IF Strip(value) \in Fractional THEN Truncated(Strip(value))
    ELSE NULL

\* the keys of VOTE_HISTORY_CHALLENGE_FIXUPS and the value of each
VOTE_HISTORY_CHALLENGE_FIXUPS ==
    (<<"US37", "26">> :> "25") @@ (<<"AU11", "13">> :> "12")

\* a value that is truthy as a version_season: neither None nor ""
TruthyText(v) == v # NULL /\ v # ""

\* valid_keys of _load_challenge_reference_data
ValidKeys(description) ==
    {<<Strip(r["version_season"]), r["challenge_id"]>> :
        r \in {d \in description :
                  d["challenge_id"] # NULL /\ TruthyText(d["version_season"])}}

\* the rows of bronze.challenge_results that reach stage_map, as
\* (version_season, sog_id, challenge_id)
StageRows(results) ==
    {<<Strip(r["version_season"]), SafeInt(r["sog_id"]), SafeInt(r["challenge_id"])>> :
        r \in {d \in results :
                  /\ d["sog_id"] # NULL /\ d["challenge_id"] # NULL
                  /\ TruthyText(d["version_season"])
                  /\ TruthyText(Strip(d["version_season"]))
                  /\ SafeInt(d["sog_id"]) # NULL /\ SafeInt(d["challenge_id"]) # NULL}}

\* stage_map of _load_challenge_reference_data: (version_season, sog_id) ->
\* the set of challenge_id
StageMap(results) ==
    [key \in {<<t[1], t[2]>> : t \in StageRows(results)} |->
        {t[3] : t \in {u \in StageRows(results) : <<u[1], u[2]>> = key}}]

\* str(value).strip() of a cell that may be null
StrStrip(v) == IF v = NULL THEN "None" ELSE Strip(v)

\* the known-fix step: the value of challenge_id after pd.to_numeric and the
\* overrides of VOTE_HISTORY_CHALLENGE_FIXUPS
KnownFix(row) ==
    LET value == ToNumeric(row["challenge_id"])
        key == <<StrStrip(row["version_season"]), Truncated(value)>>
    IN  IF value = NULL THEN NULL
        ELSE IF key \in DOMAIN VOTE_HISTORY_CHALLENGE_FIXUPS
        THEN VOTE_HISTORY_CHALLENGE_FIXUPS[key]
        ELSE value

\* the order of sorted() on the group keys the model produces
VersionRank(v) ==
    CASE v = NULL -> 0 [] v = "AU11" -> 1 [] v = "US37" -> 2 [] v = "s1" -> 3 [] OTHER -> 4
NumberRank(v) ==
    CASE v = NULL -> 0 [] v = "1" -> 1 [] v = "1.5" -> 2 [] v = "2" -> 3 [] v = "3" -> 4
      [] v = "7" -> 5 [] v = "8" -> 6 [] v = "12" -> 7 [] v = "13" -> 8 [] v = "25" -> 9
      [] v = "26" -> 10 [] OTHER -> 11
GroupKeyLess(a, b) ==
    LET differ == {k \in 1..Len(a) : a[k] # b[k]}
        first == CHOOSE k \in differ : \A m \in differ : k <= m
        rank(k, v) == IF k = 1 THEN VersionRank(v) ELSE NumberRank(v)
    IN  differ # {} /\ rank(first, a[first]) < rank(first, b[first])

RECURSIVE SortedGroupKeys(_)
SortedGroupKeys(keys) ==
    IF keys = {} THEN <<>>
    ELSE LET least == CHOOSE x \in keys : \A y \in keys \ {x} : GroupKeyLess(x, y)
         IN  <<least>> \o SortedGroupKeys(keys \ {least})

\* one event for each group of changed rows: the rows before and after, in
\* row order. Key(i) is the group key of row i, changed the rows changed.
ChangeEvents(issue_type, before, after, changed, keyOf) ==
    LET keys == SortedGroupKeys({keyOf[i] : i \in changed})
        members(key) == SelectSeq([i \in 1..Len(before) |-> i],
                                  LAMBDA i : i \in changed /\ keyOf[i] = key)
    IN  [g \in 1..Len(keys) |->
           [dataset |-> "vote_history", issue_type |-> issue_type,
            rows_corrected |-> Len(members(keys[g])),
            original_rows |-> [m \in 1..Len(members(keys[g])) |->
                                 before[members(keys[g])[m]]],
            result_rows |-> [m \in 1..Len(members(keys[g])) |->
                               after[members(keys[g])[m]]]]]

\* the known-fix step of the branch. error "TypeError": astype("Int64") on a
\* fractional challenge_id
KnownFixes(df) ==
    LET fixed == [i \in 1..Len(df.rows) |-> KnownFix(df.rows[i])]
        after == Assign(df, "challenge_id", fixed, "Int64")
        changed == {i \in 1..Len(df.rows) :
                      ToNumeric(df.rows[i]["challenge_id"]) # NULL
                      /\ fixed[i] # ToNumeric(df.rows[i]["challenge_id"])}
        \* original_row is the row as it is in df, updated_row the same with
        \* the new challenge_id
        keyOf == [i \in 1..Len(df.rows) |->
                    <<df.rows[i]["version_season"], df.rows[i]["challenge_id"], fixed[i]>>]
    IN  IF ~({"version_season", "challenge_id"} \subseteq df.columns) \/ df.rows = <<>>
        THEN [error |-> "none", df |-> df, issues |-> <<>>]
        ELSE IF \E i \in 1..Len(fixed) : fixed[i] \in Fractional
        THEN [error |-> "TypeError", df |-> df, issues |-> <<>>]
        ELSE [error |-> "none", df |-> after,
              issues |-> ChangeEvents("challenge_id_known_fix", df.rows, after.rows,
                                      changed, keyOf)]

\* StageFix taking one of several candidates instead of leaving the row
StageFix_GuessesAmongSeveral(row, valid_keys, stage_map) ==
    LET version == Strip(row["version_season"])
        stage_key == <<version, SafeInt(row["sog_id"])>>
        candidates == IF stage_key \in DOMAIN stage_map THEN stage_map[stage_key] ELSE {}
        new_id == CHOOSE c \in candidates : TRUE
    IN  IF row["challenge_id"] = NULL \/ row["version_season"] = NULL
        THEN row["challenge_id"]
        ELSE IF <<version, row["challenge_id"]>> \in valid_keys THEN row["challenge_id"]
        ELSE IF stage_key[2] = NULL THEN row["challenge_id"]
        ELSE IF candidates = {} THEN row["challenge_id"]
        ELSE new_id

\* the challenge_id the stage-of-game step leaves in a row
StageFix(row, valid_keys, stage_map) ==
    LET version == Strip(row["version_season"])
        stage_key == <<version, SafeInt(row["sog_id"])>>
        candidates == IF stage_key \in DOMAIN stage_map THEN stage_map[stage_key] ELSE {}
        new_id == CHOOSE c \in candidates : TRUE
    IN  IF row["challenge_id"] = NULL \/ row["version_season"] = NULL
        THEN row["challenge_id"]
        ELSE IF <<version, row["challenge_id"]>> \in valid_keys THEN row["challenge_id"]
        ELSE IF stage_key[2] = NULL THEN row["challenge_id"]
        ELSE IF Cardinality(candidates) # 1 THEN row["challenge_id"]
        ELSE new_id

\* the stage-of-game step of the branch
StageRemediation(df, valid_keys, stage_map) ==
    LET fixed == [i \in 1..Len(df.rows) |-> StageFix(df.rows[i], valid_keys, stage_map)]
        after == Assign(df, "challenge_id", fixed, df.dtypes["challenge_id"])
        changed == {i \in 1..Len(df.rows) : fixed[i] # df.rows[i]["challenge_id"]}
        keyOf == [i \in 1..Len(df.rows) |->
                    <<df.rows[i]["version_season"], df.rows[i]["sog_id"]>>]
    IN  IF ~({"version_season", "challenge_id", "sog_id"} \subseteq df.columns)
        THEN [df |-> df, issues |-> <<>>]
        ELSE [df |-> after,
              issues |-> ChangeEvents("challenge_id_remediation", df.rows, after.rows,
                                      changed, keyOf)]

\* the null_castaway_ids event of the branch
NullCastawayIssues(df) ==
    IF "castaway_id" \in df.columns
          /\ \E i \in 1..Len(df.rows) : CleanText(df.rows[i]["castaway_id"]) = NULL
    THEN <<[dataset |-> "vote_history", issue_type |-> "null_castaway_ids"]>>
    ELSE <<>>

\* the final pd.to_numeric(df.get("challenge_id"), errors="coerce").astype("Int64")
FinalChallengeId(df) ==
    Assign(df, "challenge_id",
           [i \in 1..Len(df.rows) |-> ToNumeric(df.rows[i]["challenge_id"])], "Int64")

\* the vote_history branch, staged: after the known fixes
VoteHistoryAfterKnownFixes(known, nullIssues, description, results) ==
    IF known.error # "none"
    THEN [error |-> known.error, staged |-> known.df, df |-> known.df, issues |-> nullIssues]
    ELSE IF "challenge_id" \notin known.df.columns
    THEN [error |-> "AttributeError", staged |-> known.df, df |-> known.df,
          issues |-> nullIssues \o known.issues]
    ELSE IF \E i \in 1..Len(known.df.rows) :
               ToNumeric(known.df.rows[i]["challenge_id"]) \in Fractional
    THEN [error |-> "TypeError", staged |-> known.df, df |-> known.df,
          issues |-> nullIssues \o known.issues]
    ELSE [error |-> "none", staged |-> known.df,
          df |-> FinalChallengeId(
                    StageRemediation(known.df, ValidKeys(description),
                                     StageMap(results)).df),
          issues |-> nullIssues \o known.issues
                     \o StageRemediation(known.df, ValidKeys(description),
                                         StageMap(results)).issues]

\* the vote_history branch. staged: the dataframe as the stage-of-game step
\* finds it; df: the dataframe the branch leaves
VoteHistoryRules(df, description, results) ==
    VoteHistoryAfterKnownFixes(KnownFixes(CleanCastawayId(df)), NullCastawayIssues(df),
                               description, results)

(***************************************************************************)
(* db_utils.py: the journeys branch of _apply_dataset_specific_rules.      *)
(*                                                                         *)
(* reference is what fetch_existing_keys returns for bronze.castaways:     *)
(* the rows (castaway_id, castaway, version_season) in the order the       *)
(* store returns them (the SELECT has no ORDER BY). The names of the       *)
(* model are "Rob", "ROB", "R\'ob" (o with an acute accent, written        *)
(* "Ro'b"), "Rob C", "Robb" and "Zed".                                     *)
(***************************************************************************)
\* str.lower() of a name
NameLower(name) ==
    CASE name = "Rob" -> "rob" [] name = "ROB" -> "rob" [] name = "Ro'b" -> "ro'b"
      [] name = "Rob C" -> "rob c" [] name = "Robb" -> "robb" [] name = "Zed" -> "zed"
      [] name = "None" -> "none"
      [] OTHER -> name

\* _normalise_name: diacritics removed, lower case, only [a-z0-9] kept
NormaliseName(text) ==
    CASE NameLower(text) = "ro'b" -> "rob"
      [] NameLower(text) = "rob c" -> "robc"
      [] OTHER -> NameLower(text)

\* lower_name.split()[0]
FirstToken(lower_name) == IF lower_name = "rob c" THEN "rob" ELSE lower_name

\* SequenceMatcher(None, x, word).ratio() in thousandths, over the
\* normalised names of the model
Ratio(x, word) ==
    CASE x = word -> 1000
      [] {x, word} = {"rob", "robb"} -> 857
      [] {x, word} = {"rob", "robc"} -> 857
      [] {x, word} = {"robb", "robc"} -> 750
      [] OTHER -> 0

\* the order of the normalised names as Python strings
NormRank(x) ==
    CASE x = "none" -> 1 [] x = "rob" -> 2 [] x = "robb" -> 3 [] x = "robc" -> 4
      [] x = "zed" -> 5 [] OTHER -> 0

\* difflib.get_close_matches(word, possibilities, n=1, cutoff=0.7): the
\* matches, at most one - the best (score, x)
CloseMatches(word, possibilities) ==
    LET close == {x \in possibilities : Ratio(x, word) >= 700}
    IN  {x \in close :
            \A y \in close \ {x} :
               \/ Ratio(y, word) < Ratio(x, word)
               \/ Ratio(y, word) = Ratio(x, word) /\ NormRank(y) < NormRank(x)}

\* the reference rows that reach the lookups, in their order
ReferenceEntries(reference) ==
    SelectSeq(reference,
              LAMBDA r : /\ r["castaway_id"] # NULL /\ r["castaway_id"] # ""
                         /\ StrStrip(r["version_season"]) # ""
                         /\ StrStrip(r["castaway"]) # "")

\* dict[key]: the value of the latest assignment to the key, NULL for none.
\* keys[i] and values[i] are the key and value of the i-th assignment.
DictGet(keys, values, key) ==
    IF \A i \in 1..Len(keys) : keys[i] # key THEN NULL
    ELSE values[CHOOSE i \in 1..Len(keys) :
                   keys[i] = key /\ \A j \in 1..Len(keys) : keys[j] = key => j <= i]

\* the set a defaultdict(set) holds for the key
DictSet(keys, values, key) == {values[i] : i \in {j \in 1..Len(keys) : keys[j] = key}}

EntryIds(entries) == [i \in 1..Len(entries) |-> entries[i]["castaway_id"]]
EntryVersion_AnySeason(entries, i) == "s1"
EntryVersion(entries, i) == StrStrip(entries[i]["version_season"])
EntryLower(entries, i) == NameLower(StrStrip(entries[i]["castaway"]))

\* the keys of castaway_lookup, normalised_lookup, first_name_lookup and
\* normalised_first_lookup, assignment by assignment
CastawayKeys(entries) ==
    [i \in 1..Len(entries) |-> <<EntryVersion(entries, i), EntryLower(entries, i)>>]
NormalisedKeys(entries) ==
    [i \in 1..Len(entries) |->
        <<EntryVersion(entries, i), NormaliseName(StrStrip(entries[i]["castaway"]))>>]
FirstNameKeys(entries) ==
    [i \in 1..Len(entries) |->
        <<EntryVersion(entries, i), FirstToken(EntryLower(entries, i))>>]
NormalisedFirstKeys(entries) ==
    [i \in 1..Len(entries) |->
        <<EntryVersion(entries, i), NormaliseName(FirstToken(EntryLower(entries, i)))>>]

\* str(row.get(column) or "").strip(): "" for None; a NaN reads "nan", which
\* like "" matches no reference name of the model
TextOrEmpty(v) == IF v = NULL THEN "" ELSE Strip(v)

\* the fuzzy step of _backfill_castaway_id
FuzzyBackfill(version_season, normalised_name, entries) ==
    LET names == {NormalisedKeys(entries)[i][2] :
                     i \in {j \in 1..Len(entries) :
                               EntryVersion(entries, j) = version_season}}
        match == CloseMatches(normalised_name, names)
        matched_key == CHOOSE x \in match : TRUE
    IN  IF match = {} THEN [castaway_id |-> NULL, fuzzy |-> FALSE, matched_name |-> NULL]
        ELSE [castaway_id |-> DictGet(NormalisedKeys(entries), EntryIds(entries),
                                      <<version_season, matched_key>>),
              fuzzy |-> TRUE, matched_name |-> matched_key]

\* _backfill_castaway_id: the identifier found for a row, whether the fuzzy
\* step found it, and the name it matched
BackfillCastawayId(row, entries) ==
    LET version_season == TextOrEmpty(row["version_season"])
        name_raw == TextOrEmpty(row["castaway"])
        lower_name == NameLower(name_raw)
        normalised_name == NormaliseName(name_raw)
        ids == EntryIds(entries)
        direct == DictGet(CastawayKeys(entries), ids, <<version_season, lower_name>>)
        normalised_direct ==
            DictGet(NormalisedKeys(entries), ids, <<version_season, normalised_name>>)
        candidates ==
            DictSet(FirstNameKeys(entries), ids, <<version_season, FirstToken(lower_name)>>)
        candidates_norm ==
            DictSet(NormalisedFirstKeys(entries), ids,
                    <<version_season, NormaliseName(FirstToken(lower_name))>>)
        found(id) == [castaway_id |-> id, fuzzy |-> FALSE, matched_name |-> NULL]
    IN  IF version_season = "" \/ name_raw = "" THEN found(NULL)
        ELSE IF direct # NULL THEN found(direct)
        ELSE IF normalised_direct # NULL THEN found(normalised_direct)
        ELSE IF Cardinality(candidates) = 1 THEN found(CHOOSE c \in candidates : TRUE)
        ELSE IF Cardinality(candidates_norm) = 1
        THEN found(CHOOSE c \in candidates_norm : TRUE)
        ELSE FuzzyBackfill(version_season, normalised_name, entries)

\* the castaway column stripped, a blank turned into None
CleanCastawayName(df) ==
    IF "castaway" \in df.columns
    THEN Assign(df, "castaway",
                [i \in 1..Len(df.rows) |->
                    IF TextOrEmpty(df.rows[i]["castaway"]) = "" THEN NULL
                    ELSE Strip(df.rows[i]["castaway"])], "object")
    ELSE df

\* the branch after the backfill handing unresolved rows on instead of raising
JourneysAfterBackfill_KeepsUnresolved(cleaned, fills) ==
    [error |-> "none",
     df |-> CleanCastawayName(
                IF "castaway_id" \in cleaned.columns
                THEN Assign(cleaned, "castaway_id",
                            [i \in 1..Len(cleaned.rows) |->
                                IF cleaned.rows[i]["castaway_id"] = NULL
                                THEN fills[i].castaway_id
                                ELSE cleaned.rows[i]["castaway_id"]], "object")
                ELSE cleaned),
     issues |-> <<>>]

\* the branch after the backfill: fills[i] is what _backfill_castaway_id
\* found for row i of the cleaned dataframe (nothing for a row that had an
\* identifier, or when there was no backfill)
JourneysAfterBackfill(cleaned, fills) ==
    LET filled == IF "castaway_id" \in cleaned.columns
                  THEN Assign(cleaned, "castaway_id",
                              [i \in 1..Len(cleaned.rows) |->
                                  IF cleaned.rows[i]["castaway_id"] = NULL
                                  THEN fills[i].castaway_id
                                  ELSE cleaned.rows[i]["castaway_id"]], "object")
                  ELSE cleaned
        named == CleanCastawayName(filled)
        resolved == {i \in 1..Len(fills) : fills[i].castaway_id # NULL}
        direct_indices == {i \in resolved : ~fills[i].fuzzy}
        fuzzy_indices == SelectSeq([i \in 1..Len(fills) |-> i],
                                  LAMBDA i : i \in resolved /\ fills[i].fuzzy)
        backfill_issues ==
            (IF direct_indices = {} THEN <<>>
             ELSE <<[dataset |-> "journeys", issue_type |-> "castaway_id_backfilled",
                     rows_updated |-> Cardinality(direct_indices)]>>)
            \o [k \in 1..Len(fuzzy_indices) |->
                  [dataset |-> "journeys", issue_type |-> "castaway_id_fuzzy_backfill",
                   matched_name |-> fills[fuzzy_indices[k]].matched_name,
                   castaway_id |-> fills[fuzzy_indices[k]].castaway_id]]
        unique_cols ==
            PresentCols(<<"version_season", "episode", "sog_id", "castaway_id">>, named)
        deduplicated == IF unique_cols = <<>> THEN named
                        ELSE WithRows(named, DropDuplicates(named.rows, unique_cols))
    IN  IF "castaway_id" \in named.columns
           /\ \E i \in 1..Len(named.rows) : named.rows[i]["castaway_id"] = NULL
        THEN [error |-> IF {"version_season", "episode", "sog_id", "event"}
                              \subseteq named.columns
                        THEN "ValueError" ELSE "KeyError",
              df |-> named, issues |-> backfill_issues]
        ELSE [error |-> "none", df |-> deduplicated,
              issues |-> backfill_issues
                         \o IF Len(deduplicated.rows) < Len(named.rows)
                            THEN <<[dataset |-> "journeys",
                                    issue_type |-> "deduplicated_rows",
                                    rows_removed |-> Len(named.rows)
                                                     - Len(deduplicated.rows),
                                    before |-> Len(named.rows),
                                    after |-> Len(deduplicated.rows)]>>
                            ELSE <<>>]

\* what _backfill_castaway_id finds for each row of the cleaned dataframe
JourneysFills(cleaned, reference) ==
    [i \in 1..Len(cleaned.rows) |->
        IF /\ {"castaway_id", "version_season", "castaway"} \subseteq cleaned.columns
           /\ cleaned.rows[i]["castaway_id"] = NULL
        THEN BackfillCastawayId(cleaned.rows[i], ReferenceEntries(reference))
        ELSE [castaway_id |-> NULL, fuzzy |-> FALSE, matched_name |-> NULL]]

\* the journeys branch: error "none", "ValueError" (rows still without
\* castaway_id) or "KeyError" (the context columns of the error report are
\* not there), the dataframe and the events registered
JourneysRules(df, reference) ==
    JourneysAfterBackfill(CleanCastawayId(df), JourneysFills(CleanCastawayId(df), reference))

(***************************************************************************)
(* validation.py: _evaluate_check, validate_bronze_dataset                 *)
(***************************************************************************)
\* _evaluate_check: TRUE when the rule passes
EvaluateCheck(df, check) ==
    /\ check.column \in df.columns
    /\ IF check.metric = "missing_count"
       THEN \A i \in 1..Len(df.rows) : df.rows[i][check.column] # NULL
       ELSE \A i \in 1..Len(df.rows) :
               ~DuplicatedKeepFirst(df.rows, <<check.column>>)[i]

FailedChecks(ds, df) ==
    {i \in 1..Len(DATASET_CHECKS(ds)) : ~EvaluateCheck(df, DATASET_CHECKS(ds)[i])}

\* _consume_dataset_issues: the ledger without the events of the dataset
ConsumeDatasetIssues(ledger, ds) == SelectSeq(ledger, LAMBDA e : e.dataset # ds)

\* _collect_dataset_issues: the events attributed to the dataset's summary
CollectedIssues(ledger, ds) ==
    SelectSeq(ledger, LAMBDA e : e.dataset = ds /\ e.issue_type # "value_coercion")

\* validate_bronze_dataset(ds, df) run against REFERENCE_CACHE = cache and
\* DATA_ISSUES = ledger. error: "none", "KeyError" (a configured column is
\* not in the dataframe) or "ValueError"; recorded: the summary reached
\* VALIDATION_SUMMARIES.
ValidateBronzeDataset(ds, df, cache, ledger) ==
    LET failed_checks  == FailedChecks(ds, df)
        unique_columns == UniqueConstraintCols(ds)
        ref_columns    == ReferenceColumns(ds)
        none == [error |-> "none", status |-> "passed", recorded |-> FALSE,
                 failed_checks |-> failed_checks, unique_status |-> "none",
                 foreign_keys |-> <<>>, issues |-> <<>>,
                 cache |-> cache, ledger |-> ledger]
    IN
    IF unique_columns # <<>> /\ ~(Range(unique_columns) \subseteq df.columns)
    THEN [none EXCEPT !.error = "KeyError", !.status = "failed"]
    ELSE
    LET unique_result == CheckUniqueConstraint(df.rows, unique_columns,
                                               NullableUniqueColumns(ds))
    IN
    IF unique_result.raised
    THEN [none EXCEPT !.error = "ValueError", !.status = "failed",
                      !.unique_status = "failed"]
    ELSE IF ref_columns # <<>> /\ ~(Range(ref_columns) \subseteq df.columns)
    THEN [none EXCEPT !.error = "KeyError", !.status = "failed"]
    ELSE
    LET cache1 == IF ref_columns = <<>> THEN cache
                  ELSE [d \in DOMAIN cache \cup {ds} |->
                          IF d = ds THEN ReferenceSnapshot(df.rows, ref_columns)
                          ELSE cache[d]]
        fk_results == RunForeignKeyChecks(FOREIGN_KEY_RULES(ds), df, cache1)
        status == IF failed_checks # {}
                     \/ \E i \in 1..Len(fk_results) : fk_results[i].status = "failed"
                  THEN "failed" ELSE "passed"
    IN  [error |-> IF status = "passed" THEN "none" ELSE "ValueError",
         status |-> status, recorded |-> TRUE,
         failed_checks |-> failed_checks,
         unique_status |-> IF unique_columns = <<>> THEN "none" ELSE "passed",
         foreign_keys |-> fk_results,
         issues |-> CollectedIssues(ledger, ds),
         cache |-> cache1,
         ledger |-> ConsumeDatasetIssues(ledger, ds)]

(***************************************************************************)
(* db_utils.py: preprocess_dataframe (the value_coercion events),          *)
(* _ensure_challenge_description_rows                                      *)
(***************************************************************************)
\* the columns in which preprocessing turned a non-null value into null
CoercedColumns(df, schema) ==
    LET after == PreprocessDataframe(df, SchemaTypes(schema))
    IN  SelectSeq([i \in 1..Len(schema) |-> schema[i].name],
                  LAMBDA c : /\ c \in df.columns
                             /\ \E i \in 1..Len(df.rows) :
                                   df.rows[i][c] # NULL /\ after.rows[i][c] = NULL)

PreprocessIssues(ds, df, schema) ==
    [i \in 1..Len(CoercedColumns(df, schema)) |->
        [dataset |-> ds, issue_type |-> "value_coercion"]]

\* the run identifiers and the wall clock, as stored values
RunId(n) == "run" \o ToString(n)
Timestamp(n) == "at" \o ToString(n)

\* df["version_season"].astype(str).str.strip(): a null becomes the text "none"
VersionSeasonNorm(v) == IF v = NULL THEN "none" ELSE Strip(v)

\* sorted(missing_pairs) over the pairs the model produces
PairRank(pair) ==
    (CASE pair[1] = "none" -> 0 [] pair[1] = "s1" -> 10 [] OTHER -> 20)
    + (CASE pair[2] = "1" -> 1 [] pair[2] = "2" -> 2 [] OTHER -> 3)

RECURSIVE SortedPairs(_)
SortedPairs(pairs) ==
    IF pairs = {} THEN <<>>
    ELSE LET least == CHOOSE x \in pairs : \A y \in pairs : PairRank(x) <= PairRank(y)
         IN  <<least>> \o SortedPairs(pairs \ {least})

\* _first_non_null_value of a column over the rows at the given positions
FirstNonNull(rows, positions, c) ==
    IF \A i \in positions : rows[i][c] = NULL THEN NULL
    ELSE rows[CHOOSE i \in positions :
                 /\ rows[i][c] # NULL
                 /\ \A j \in positions : j < i => rows[j][c] = NULL][c]

\* every pair of the child rows taken as missing
MissingPairs_AllCandidates(df, parentRows) ==
    {<<VersionSeasonNorm(df.rows[i]["version_season"]),
       ToNumeric(df.rows[i]["challenge_id"])>> :
        i \in {j \in 1..Len(df.rows) : ToNumeric(df.rows[j]["challenge_id"]) # NULL}}

\* the (version_season, challenge_id) pairs of the child rows that
\* bronze.challenge_description does not hold
MissingPairs(df, parentRows) ==
    LET candidate_pairs ==
            {<<VersionSeasonNorm(df.rows[i]["version_season"]),
               ToNumeric(df.rows[i]["challenge_id"])>> :
                i \in {j \in 1..Len(df.rows) :
                          ToNumeric(df.rows[j]["challenge_id"]) # NULL}}
        existing_pairs ==
            {<<parentRows[i]["version_season"], parentRows[i]["challenge_id"]>> :
                i \in {j \in 1..Len(parentRows) : parentRows[j]["challenge_id"] # NULL}}
    IN  candidate_pairs \ existing_pairs

\* the stub dataframe aligned with the parent table, before preprocessing
StubRaw(df, parentRows, run, now) ==
    LET pairs == SortedPairs(MissingPairs(df, parentRows))
        schema == TableSchema("challenge_description")
        cols == SchemaColumns(schema) \ {"row_id"}
        stub(pair) ==
            LET positions == {i \in 1..Len(df.rows) :
                                /\ VersionSeasonNorm(df.rows[i]["version_season"]) = pair[1]
                                /\ ToNumeric(df.rows[i]["challenge_id"]) = pair[2]}
                sameSeason == {parentRows[i]["ingest_run_id"] :
                                 i \in {j \in 1..Len(parentRows) :
                                           parentRows[j]["version_season"] = pair[1]}}
            IN  [c \in cols |->
                   CASE c = "version_season" -> pair[1]
                     [] c = "challenge_id"   -> pair[2]
                     [] c = "challenge_type" -> FirstNonNull(df.rows, positions, "challenge_type")
                     [] c = "source_dataset" -> "challenge_results_stub"
                     \* the identifier of a stored row of the season, if any
                     [] c = "ingest_run_id"  ->
                            IF sameSeason \in {{}, {NULL}} THEN RunId(run)
                            ELSE CHOOSE r \in sameSeason \ {NULL} : r # NULL
                     [] c = "ingested_at"    -> Timestamp(now)
                     [] OTHER -> NULL]
    IN  [columns |-> cols,
         dtypes  |-> [c \in cols |-> "object"],
         rows    |-> [i \in 1..Len(pairs) |-> stub(pairs[i])]]

\* the stub dataframe handed to the upsert
StubFrame(df, parentRows, run, now) ==
    PreprocessDataframe(StubRaw(df, parentRows, run, now),
                        SchemaTypes(TableSchema("challenge_description")))

\* _ensure_challenge_description_rows. error: "none", "TypeError" when a
\* challenge_id is fractional (astype("Int64")), or "KeyError" when a
\* descriptive column of the child rows is absent; wrote: the upsert into
\* bronze.challenge_description was executed (and committed)
EnsureChallengeDescriptionRows(df, parentRows, run, now, nulls_distinct) ==
    LET nothing == [error |-> "none", wrote |-> FALSE, rows |-> parentRows,
                    issues |-> <<>>]
    IN
    IF df.rows = <<>> \/ ~({"version_season", "challenge_id"} \subseteq df.columns)
    THEN nothing
    ELSE IF \E i \in 1..Len(df.rows) : df.rows[i]["challenge_id"] \in Fractional
    THEN [nothing EXCEPT !.error = "TypeError"]
    ELSE IF "challenge_type" \notin df.columns
    THEN [nothing EXCEPT !.error = "KeyError"]
    ELSE IF MissingPairs(df, parentRows) = {} THEN nothing
    ELSE
    LET stub_df == StubFrame(df, parentRows, run, now)
        result  == UpsertDataframe(parentRows, stub_df,
                                   SchemaColumns(TableSchema("challenge_description")),
                                   <<"version_season", "challenge_id">>, nulls_distinct)
    IN  [error |-> IF result.ok THEN "none" ELSE "DatabaseError",
         wrote |-> result.ok,
         rows  |-> result.rows,
         issues |-> PreprocessIssues("challenge_description_stub",
                                     StubRaw(df, parentRows, run, now),
                                     TableSchema("challenge_description"))
                    \o
                    <<[dataset |-> "challenge_results",
                       issue_type |-> "challenge_description_backfill",
                       result_rows |-> stub_df.rows],
                      [dataset |-> "challenge_description",
                       issue_type |-> "challenge_description_backfill",
                       result_rows |-> stub_df.rows]>>]

(***************************************************************************)
(* db_utils.py: load_dataset_to_table                                      *)
(*                                                                         *)
(* st is the state the call starts from: [store, refCache, summaries,      *)
(* ledger, run, now, params]. The result records how far the call got,     *)
(* the exception that left it, every statement that modified the           *)
(* database, and the state it leaves behind.                               *)
(***************************************************************************)
NoFrame == [columns |-> {}, dtypes |-> <<>>, rows |-> <<>>]

NoUpsert == [ok |-> TRUE, rows |-> <<>>, inserted_keys |-> <<>>, updated_keys |-> <<>>,
             inserted |-> 0, updated |-> 0]

NoSchemaResult == [is_valid |-> TRUE, missing_columns |-> {}, extra_columns |-> {},
                   type_mismatches |-> {}]

\* the lineage columns added when the table has them and the dataframe does not
WithLineage(df, schema, run, now) ==
    LET f == [i \in 1..Len(df.rows) |-> RunId(run)]
        g == [i \in 1..Len(df.rows) |-> Timestamp(now)]
        d1 == IF "ingest_run_id" \in SchemaColumns(schema) /\ "ingest_run_id" \notin df.columns
              THEN Assign(df, "ingest_run_id", f, "object") ELSE df
    IN  IF "ingested_at" \in SchemaColumns(schema) /\ "ingested_at" \notin d1.columns
        THEN Assign(d1, "ingested_at", g, "datetime64[ns, UTC]") ELSE d1

EffectiveTruncate_ProdGuardsSettingOnly(truncate, cfg) ==
    IF truncate = "None" THEN cfg.truncate_on_load /\ cfg.environment # "prod"
    ELSE truncate = "True"

EffectiveTruncate_IgnoresProd(truncate, cfg) ==
    IF truncate = "None" THEN cfg.truncate_on_load ELSE truncate = "True"

\* truncate resolved against params: the argument or truncate_on_load, never in prod
EffectiveTruncate(truncate, cfg) ==
    /\ IF truncate = "None" THEN cfg.truncate_on_load ELSE truncate = "True"
    /\ cfg.environment # "prod"

\* the outcome of a call that has not done anything yet
LoadBegin(ds, raw, truncate, st) ==
    [dataset |-> ds, raw |-> raw, truncate |-> truncate,
     error |-> "none", reached |-> {}, steps |-> <<>>, writes |-> <<>>,
     validated |-> NoFrame, foreign_keys |-> <<>>, cacheUsed |-> st.refCache,
     schema_result |-> NoSchemaResult,
     frame |-> NoFrame, upsert |-> NoUpsert,
     tableBefore |-> st.store[ds],
     store |-> st.store, refCache |-> st.refCache,
     summaries |-> st.summaries, ledger |-> st.ledger]

\* lines 1942-1959: the outcome of the upsert recorded, a failure wrapped
\* in RuntimeError
LoadAfterUpsert(o, result) ==
    IF result.ok
    THEN [o EXCEPT !.reached = @ \cup {"upsert"},
                   !.steps = Append(@, "upsert"),
                   !.upsert = result,
                   !.store = [@ EXCEPT ![o.dataset] = result.rows],
                   !.writes = Append(@, "upsert:" \o o.dataset)]
    ELSE [o EXCEPT !.reached = @ \cup {"upsert"},
                   !.steps = Append(@, "upsert"),
                   !.upsert = result,
                   !.error = "RuntimeError"]

\* lines 1929-1947: the table truncated, an empty dataframe returned on,
\* any other upserted
LoadAfterAlign(o, st, df, trunc) ==
    LET truncated == [o EXCEPT !.store = IF trunc THEN [@ EXCEPT ![o.dataset] = <<>>] ELSE @,
                               !.writes = IF trunc THEN Append(@, "truncate:" \o o.dataset)
                                          ELSE @,
                               !.frame = df]
    IN  IF df.rows = <<>> THEN truncated
        ELSE LoadAfterUpsert(truncated,
                 UpsertDataframe(truncated.store[o.dataset], df,
                                 SchemaColumns(TableSchema(o.dataset)),
                                 UniqueConstraintCols(o.dataset),
                                 st.params.nulls_distinct))

\* lines 1899-1927: SchemaMismatchError raised, or the dataframe aligned
\* and truncate resolved
LoadAfterSchema(o, st, df, validation) ==
    IF validation.missing_columns # {} \/ validation.type_mismatches # {}
    THEN [o EXCEPT !.schema_result = validation, !.error = "SchemaMismatchError"]
    ELSE LoadAfterAlign([o EXCEPT !.schema_result = validation], st,
                        AlignWithSchema(df, TableSchema(o.dataset)),
                        EffectiveTruncate(o.truncate, st.params))

\* line 1898: validate_schema on the preprocessed dataframe
LoadAfterPreprocess(o, st, df) ==
    LoadAfterSchema([o EXCEPT !.reached = {"rules", "validation", "schema"},
                              !.steps = Append(@, "schema")], st, df,
                    ValidateSchema(df, TableSchema(o.dataset)))

\* line 1896: preprocess_dataframe on the dataframe with its lineage
LoadAfterLineage(o, st, df) ==
    LoadAfterPreprocess(
        [o EXCEPT !.ledger = @ \o PreprocessIssues(o.dataset, df, TableSchema(o.dataset)),
                  !.steps = Append(@, "coercion")],
        st, PreprocessDataframe(df, SchemaTypes(TableSchema(o.dataset))))

\* lines 1883-1894: the exception of validate_bronze_dataset passed on, or
\* the lineage columns added
LoadAfterValidation(o, st, val) ==
    LET validated ==
            [o EXCEPT !.ledger = val.ledger,
                      !.foreign_keys = val.foreign_keys,
                      !.cacheUsed = val.cache,
                      !.refCache = val.cache,
                      !.summaries =
                          IF val.recorded
                          THEN [d \in DOMAIN o.summaries \cup {o.dataset} |->
                                  IF d = o.dataset
                                  THEN [status |-> val.status, issues |-> val.issues]
                                  ELSE o.summaries[d]]
                          ELSE @]
    IN  IF val.error # "none" THEN [validated EXCEPT !.error = val.error]
        ELSE LoadAfterLineage(validated, st,
                 WithLineage(o.validated, TableSchema(o.dataset), st.run, st.now))

\* line 1883: validate_bronze_dataset on the deduplicated dataframe
LoadAfterDeduplication(o, st, df) ==
    LoadAfterValidation([o EXCEPT !.reached = {"rules"}, !.validated = df,
                                  !.steps = Append(@, "integrity")], st,
                        ValidateBronzeDataset(o.dataset, df, st.refCache, o.ledger))

\* line 1881: _apply_unique_key_deduplication on the remediated dataframe
LoadAfterRules(o, st, df) ==
    LoadAfterDeduplication([o EXCEPT !.ledger = @ \o DeduplicationIssues(o.dataset, df)],
                           st, ApplyUniqueKeyDeduplication(o.dataset, df))

\* the challenge_results branch without the stub synthesis
LoadStubs_NoSynthesis(ds, raw, st) ==
    [error |-> "none", wrote |-> FALSE,
     rows |-> st.store["challenge_description"], issues |-> <<>>]

\* the challenge_description stubs of the challenge_results branch of
\* _apply_dataset_specific_rules
LoadStubs(ds, raw, st) ==
    IF ds = "challenge_results"
    THEN EnsureChallengeDescriptionRows(raw, st.store["challenge_description"],
                                        st.run, st.now, st.params.nulls_distinct)
    ELSE [error |-> "none", wrote |-> FALSE,
          rows |-> st.store["challenge_description"], issues |-> <<>>]

\* line 1880: the dataset's own branch of _apply_dataset_specific_rules left
\* by an exception, its events registered, or the remediated dataframe
\* handed on
LoadAfterRemediation(o, st, rules) ==
    IF rules.error # "none"
    THEN [o EXCEPT !.error = rules.error, !.ledger = @ \o rules.issues]
    ELSE LoadAfterRules([o EXCEPT !.ledger = @ \o rules.issues], st, rules.df)

\* the outcome of the dataset's own branch: the journeys branch reads
\* bronze.castaways, in the order st.castaways, and may raise; the
\* vote_history branch reads bronze.challenge_description and
\* bronze.challenge_results
DatasetRules(ds, raw, st) ==
    IF ds = "journeys"
    THEN [JourneysRules(raw, st.castaways) EXCEPT !.df = WithSourceDataset(ds, @)]
    ELSE IF ds = "vote_history"
    THEN [error |-> VoteHistoryRules(raw, Range(st.store["challenge_description"]),
                                     Range(st.store["challenge_results"])).error,
          df |-> WithSourceDataset(ds,
                    VoteHistoryRules(raw, Range(st.store["challenge_description"]),
                                     Range(st.store["challenge_results"])).df),
          issues |-> VoteHistoryRules(raw, Range(st.store["challenge_description"]),
                                      Range(st.store["challenge_results"])).issues]
    ELSE [error |-> "none", df |-> ApplyDatasetSpecificRules(ds, raw),
          issues |-> RulesIssues(ds, raw)]

\* lines 708-716 of _ensure_challenge_description_rows: the backfill event
\* appended to the summary of challenge_description, when there is one
WithStubEvent(summaries, issues) ==
    LET events == SelectSeq(issues, LAMBDA e : /\ e.dataset = "challenge_description"
                                               /\ e.issue_type = "challenge_description_backfill")
    IN  IF "challenge_description" \in DOMAIN summaries
        THEN [summaries EXCEPT !["challenge_description"].issues = @ \o events]
        ELSE summaries

\* line 1880: _apply_dataset_specific_rules, left by the exception of the
\* stub synthesis or going on to the dataset's own branch
LoadAfterStubs(o, st, ens) ==
    IF ens.error # "none"
    THEN [o EXCEPT !.error = ens.error, !.ledger = @ \o ens.issues,
                   !.summaries = WithStubEvent(@, ens.issues)]
    ELSE LoadAfterRemediation(
             [o EXCEPT !.store = [@ EXCEPT !["challenge_description"] = ens.rows],
                       !.writes = IF ens.wrote THEN <<"upsert:challenge_description">>
                                  ELSE <<>>,
                       !.ledger = @ \o ens.issues,
                       !.summaries = WithStubEvent(@, ens.issues)],
             st, DatasetRules(o.dataset, o.raw, st))

LoadDatasetToTable(ds, raw, truncate, st) ==
    LoadAfterStubs([LoadBegin(ds, raw, truncate, st) EXCEPT !.steps = <<"remediation">>],
                   st, LoadStubs(ds, raw, st))

(***************************************************************************)
(* Specification Spec: a process that calls load_dataset_to_table up to    *)
(* MaxLoads times, on any dataset and any of the raw dataframes below,     *)
(* and ends a run with finalise_validation_reports.                        *)
(***************************************************************************)
\* twelve further identifiers, for dataframes longer than the sample limit
LongVals == <<"v01", "v02", "v03", "v04", "v05", "v06",
              "v07", "v08", "v09", "v10", "v11", "v12">>

\* a raw dataframe with the dtypes pandas infers
MkFrame(cols, rows) ==
    [columns |-> cols,
     dtypes  |-> [c \in cols |-> InferDtype(ColumnValues(rows, c))],
     rows    |-> rows]

Row3(a, b, c, va, vb, vc) == (a :> va) @@ (b :> vb) @@ (c :> vc)

CastawayDetailsRows ==
    {("castaway_id" :> id) @@ ("full_name" :> "n1") : id \in {"c1", "c2"}}

CastawayScoresRows ==
    {Row3("version_season", "castaway_id", "score", "s1", "c1", "7"),
     Row3("version_season", "castaway_id", "score", "s1", "c2", "8"),
     Row3("version_season", "castaway_id", "score", "s1_", "c1", "7"),
     Row3("version_season", "castaway_id", "score", "s1", "c1_", "8"),
     Row3("version_season", "castaway_id", "score", "s1", NULL, "7"),
     Row3("version_season", "castaway_id", "score", "s1", "c1", "1.5")}

TribeMappingRows ==
    {Row3("version_season", "castaway_id", "tribe", "s1", "c1", "t1"),
     Row3("version_season", "castaway_id", "tribe", "s1", NULL, "t1"),
     Row3("version_season", "castaway_id", "tribe", "s1", "c1", "t1_")}

AuctionDetailsRows ==
    {Row3("version_season", "auction_num", "item", "s1", "1", "t1"),
     Row3("version_season", "auction_num", "item", "s1", "1", "t1_")}

ChallengeResultsRows ==
    {Row3("version_season", "challenge_id", "sog_id", "s1", id, "3")
        @@ ("challenge_type" :> "reward") @@ ("result" :> "won") : id \in {"1", "2"}}

\* the frame without the column c / with an additional column c
WithoutColumn(df, c) == Restrict(df, df.columns \ {c})
WithExtraColumn(df, c) == Assign(df, c, [i \in 1..Len(df.rows) |-> "x"], "object")

\* eleven castaway_scores rows with pairwise distinct castaway_id
LongScores ==
    MkFrame({"version_season", "castaway_id", "score"},
            [i \in 1..(SAMPLE_LIMIT + 1) |->
                Row3("version_season", "castaway_id", "score", "s1", LongVals[i], "7")])

RawFrames(ds) ==
    CASE ds = "castaway_details" ->
            {MkFrame({"castaway_id", "full_name"}, rows) :
                rows \in SeqsUpTo(CastawayDetailsRows, MaxLoadRows)}
            \cup {MkFrame({"castaway_id", "full_name"},
                          <<("castaway_id" :> NULL) @@ ("full_name" :> "n1")>>)}
      [] ds = "castaway_scores" ->
            \* any single row, or the plain row (s1, c1, 7) followed by any rows
            LET first == Row3("version_season", "castaway_id", "score", "s1", "c1", "7")
                plain == {MkFrame({"version_season", "castaway_id", "score"}, rows) :
                             rows \in {r \in SeqsUpTo(CastawayScoresRows, MaxLoadRows) :
                                          Len(r) <= 1 \/ r[1] = first}}
                one == MkFrame({"version_season", "castaway_id", "score"}, <<first>>)
            IN  plain \cup {WithoutColumn(one, "score"), WithExtraColumn(one, "note"),
                            WithoutColumn(one, "castaway_id"), LongScores}
      [] ds = "tribe_mapping" ->
            {MkFrame({"version_season", "castaway_id", "tribe"}, rows) :
                rows \in SeqsUpTo(TribeMappingRows, MaxLoadRows)}
      [] ds = "auction_details" ->
            {MkFrame({"version_season", "auction_num", "item"}, rows) :
                rows \in SeqsUpTo(AuctionDetailsRows, MaxLoadRows)}
      [] ds = "challenge_results" ->
            LET plain == {MkFrame({"version_season", "challenge_id", "sog_id",
                                   "challenge_type", "result"}, rows) :
                             rows \in SeqsUpTo(ChallengeResultsRows, MaxLoadRows)}
                one == CHOOSE f \in plain : Len(f.rows) = 1 /\ f.rows[1]["challenge_id"] = "1"
            IN  plain \cup {WithoutColumn(one, "result"), WithExtraColumn(one, "note"),
                            WithoutColumn(one, "challenge_type")}

TruncateArgs == {"None"}

NoLoad ==
    [dataset |-> "none", raw |-> NoFrame, truncate |-> "None", error |-> "none",
     reached |-> {}, steps |-> <<>>, writes |-> <<>>, validated |-> NoFrame,
     foreign_keys |-> <<>>, cacheUsed |-> <<>>, schema_result |-> NoSchemaResult, frame |-> NoFrame,
     upsert |-> NoUpsert, tableBefore |-> <<>>, tableAfter |-> <<>>,
     run |-> 0, loadedBefore |-> {}]

PipelineIdle ==
    /\ params = Idle /\ store = Idle /\ REFERENCE_CACHE = Idle
    /\ VALIDATION_SUMMARIES = Idle /\ DATA_ISSUES = Idle /\ current_run = Idle
    /\ loadedInRun = Idle /\ nloads = Idle /\ last = Idle /\ prev = Idle

Init ==
    /\ params \in [environment : {"dev", "prod"}, truncate_on_load : BOOLEAN,
                   nulls_distinct : BOOLEAN]
    /\ store = [t \in Tables |-> <<>>]
    /\ REFERENCE_CACHE = <<>>
    /\ VALIDATION_SUMMARIES = <<>>
    /\ DATA_ISSUES = <<>>
    /\ current_run = 1
    /\ loadedInRun = {}
    /\ nloads = 0
    /\ last = NoLoad
    /\ prev = NoLoad
    /\ am = Idle /\ up = Idle /\ uq = Idle /\ fk = Idle /\ vh = Idle /\ jn = Idle
    /\ mn = Idle /\ ev = Idle

\* one call of load_dataset_to_table, from entry to return or exception
LoadCall(ds, raw, truncate) ==
    /\ LET st == [store |-> store, refCache |-> REFERENCE_CACHE,
                  summaries |-> VALIDATION_SUMMARIES, ledger |-> DATA_ISSUES,
                  run |-> current_run, now |-> nloads + 1, params |-> params]
       IN  \E r \in {LoadDatasetToTable(ds, raw, truncate, st)} :
           /\ store' = r.store
           /\ REFERENCE_CACHE' = r.refCache
           /\ VALIDATION_SUMMARIES' = r.summaries
           /\ DATA_ISSUES' = r.ledger
           /\ last' = [dataset |-> r.dataset, raw |-> r.raw, truncate |-> r.truncate,
                       error |-> r.error, reached |-> r.reached, steps |-> r.steps,
                       writes |-> r.writes,
                       validated |-> r.validated, foreign_keys |-> r.foreign_keys,
                       cacheUsed |-> r.cacheUsed, schema_result |-> r.schema_result,
                       frame |-> r.frame, upsert |-> r.upsert,
                       tableBefore |-> r.tableBefore, tableAfter |-> r.store[ds],
                       run |-> current_run, loadedBefore |-> loadedInRun]
    /\ prev' = last
    /\ nloads' = nloads + 1
    /\ loadedInRun' = loadedInRun \cup {ds}
    /\ UNCHANGED <<mn, ev, vh, jn, params, current_run, am, up, uq, fk>>

\* the calls of a process that loads any datasets in any order
Load(ds, raw, truncate) ==
    /\ nloads < MaxLoads
    /\ LoadCall(ds, raw, truncate)

\* finalise_validation_reports at the end of a run: nothing happens when no
\* summary was captured; otherwise VALIDATION_SUMMARIES and DATA_ISSUES are
\* cleared. REFERENCE_CACHE is not touched. The calls that follow belong to
\* the next run.
FinaliseRun ==
    /\ current_run < MaxRuns
    /\ IF DOMAIN VALIDATION_SUMMARIES = {}
       THEN UNCHANGED <<VALIDATION_SUMMARIES, DATA_ISSUES>>
       ELSE VALIDATION_SUMMARIES' = <<>> /\ DATA_ISSUES' = <<>>
    /\ current_run' = current_run + 1
    /\ loadedInRun' = {}
    /\ UNCHANGED <<mn, ev, vh, jn, params, store, REFERENCE_CACHE, nloads, last, prev, am, up, uq, fk>>

Next ==
    \/ \E ds \in Datasets : \E raw \in RawFrames(ds) : \E truncate \in TruncateArgs :
          Load(ds, raw, truncate)
    \/ FinaliseRun

Spec == Init /\ [][Next]_vars

(***************************************************************************)
(* Specification SpecReload: a dataset loaded and then loaded again        *)
(* unchanged, possibly after the reference dataset castaway_details has    *)
(* been loaded first: at most three calls of load_dataset_to_table.        *)
(***************************************************************************)
ReferenceDataset == "castaway_details"

\* the latest two calls loaded the same unchanged dataset
Repeated == nloads >= 2 /\ prev.dataset = last.dataset /\ prev.raw = last.raw

\* the first load, or the load that follows the reference dataset
LoadDataset(ds, raw) ==
    /\ nloads = 0 \/ (nloads = 1 /\ last.dataset = ReferenceDataset)
    /\ LoadCall(ds, raw, "None")

\* the latest call once more, with the same arguments
Reload ==
    /\ nloads >= 1 /\ ~Repeated
    /\ LoadCall(last.dataset, last.raw, last.truncate)

ReloadNext ==
    \/ \E ds \in Datasets : \E raw \in RawFrames(ds) : LoadDataset(ds, raw)
    \/ Reload

SpecReload == Init /\ [][ReloadNext]_vars

(***************************************************************************)
(* Properties of load_dataset_to_table, checked under Spec and SpecReload. *)
(***************************************************************************)
\* the names of the data columns of the dataset's table
DataColumnNames(ds) == {DataColumns(ds)[i].name : i \in 1..Len(DataColumns(ds))}

\* the data columns of integer type in which the validated frame holds a
\* fractional number
FractionalColumns(o) ==
    {c \in DataColumnNames(o.dataset) \cap o.validated.columns :
        /\ \E i \in 1..Len(DataColumns(o.dataset)) :
              DataColumns(o.dataset)[i].name = c /\ DataColumns(o.dataset)[i].type = "integer"
        /\ \E i \in 1..Len(o.validated.rows) : o.validated.rows[i][c] = "1.5"}

\* C3: load_dataset_to_table raises SchemaMismatchError if and only if
\* validate_schema (when the load gets to it) reports a missing column - a
\* column of the target table absent from the dataframe and not a primary
\* key - or a type mismatch; a column of the dataframe that the table does
\* not have never fails the load by itself and is not in the frame handed
\* to the upsert.
C3_SchemaMismatchIff ==
    last.dataset # "none" =>
        LET res == last.schema_result
        IN  /\ (last.error = "SchemaMismatchError") <=>
                  /\ "schema" \in last.reached
                  /\ (res.missing_columns # {} \/ res.type_mismatches # {})
            /\ "schema" \in last.reached =>
                  /\ res.missing_columns = DataColumnNames(last.dataset) \ last.raw.columns
                  /\ res.type_mismatches = FractionalColumns(last)
                  /\ res.extra_columns = last.raw.columns \ DataColumnNames(last.dataset)
            /\ "upsert" \in last.reached =>
                  /\ last.frame.columns \cap res.extra_columns = {}
                  /\ last.frame.columns =
                        (SchemaColumns(TableSchema(last.dataset)) \ {"row_id"})

\* a load refused for a missing column, before any upsert
C3_Witness ==
    /\ last.error = "SchemaMismatchError"
    /\ "schema" \in last.reached
    /\ last.schema_result.missing_columns = {"score"}
    /\ last.schema_result.type_mismatches = {}
    /\ "upsert" \notin last.reached

\* a load with an extra column that goes through without it
C3_WitnessExtra ==
    /\ last.error = "none"
    /\ last.schema_result.extra_columns = {"note"}
    /\ "upsert" \in last.reached
    /\ "note" \notin last.frame.columns

\* a load refused for a type mismatch only
C3_WitnessType ==
    /\ last.error = "SchemaMismatchError"
    /\ last.schema_result.missing_columns = {}
    /\ last.schema_result.type_mismatches = {"score"}

\* C4: whenever load_dataset_to_table raises SchemaMismatchError, no statement
\* that modifies the database (truncate, insert or upsert into any table) was
\* executed during that load, challenge_results included.
C4_NoWriteBeforeSchemaMismatch ==
    last.error = "SchemaMismatchError" => last.writes = <<>>

\* C9: for every dataset with unique-constraint columns, the dataframe handed
\* to _upsert_dataframe has no two rows that agree on all of them (nulls
\* grouping together).
C9_UpsertFrameUnique ==
    ("upsert" \in last.reached /\ UniqueConstraintCols(last.dataset) # <<>>) =>
        \A i, j \in 1..Len(last.frame.rows) :
            (\A k \in 1..Len(UniqueConstraintCols(last.dataset)) :
                last.frame.rows[i][UniqueConstraintCols(last.dataset)[k]]
                  = last.frame.rows[j][UniqueConstraintCols(last.dataset)[k]])
            => i = j

\* the target tuple of a row of the validated frame
TargetTuple(row, rule) ==
    [k \in 1..Len(rule.target_columns) |-> row[rule.target_columns[k]]]

\* the distinct target tuples, all columns non-null, that the reference
\* snapshot used by the latest load does not hold
UnmatchedTuples(o, rule) ==
    {TargetTuple(o.validated.rows[i], rule) :
        i \in {j \in 1..Len(o.validated.rows) :
                  /\ \A k \in 1..Len(rule.target_columns) :
                        o.validated.rows[j][rule.target_columns[k]] # NULL
                  /\ TargetTuple(o.validated.rows[j], rule)
                        \notin o.cacheUsed[rule.reference_dataset]}}

\* the rule can be evaluated: snapshot present and non-empty, target columns there
Evaluable(o, rule) ==
    /\ rule.reference_dataset \in DOMAIN o.cacheUsed
    /\ o.cacheUsed[rule.reference_dataset] # {}
    /\ \A k \in 1..Len(rule.target_columns) : rule.target_columns[k] \in o.validated.columns

\* C6: when the reference snapshot is present and non-empty and all target
\* columns exist, a foreign-key rule is failed if and only if some row with
\* all target columns non-null has a target tuple outside the reference
\* tuples; each distinct unmatched tuple is sampled once and at most 10 are
\* reported; when a rule of the dataset fails, validate_bronze_dataset raises
\* and load_dataset_to_table performs no upsert for the dataset.
C6_ForeignKeyFailure ==
    \A i \in 1..Len(last.foreign_keys) :
        LET rule == FOREIGN_KEY_RULES(last.dataset)[i]
            res  == last.foreign_keys[i]
            unmatched == UnmatchedTuples(last, rule)
        IN  /\ Evaluable(last, rule) =>
                 /\ (res.status = "failed") <=> (unmatched # {})
                 /\ Len(res.sample_records) =
                       IF Cardinality(unmatched) <= 10 THEN Cardinality(unmatched) ELSE 10
                 /\ \A a, b \in 1..Len(res.sample_records) :
                       /\ res.sample_records[a] \in unmatched
                       /\ res.sample_records[a] = res.sample_records[b] => a = b
            /\ res.status = "failed" =>
                 /\ last.error = "ValueError"
                 /\ "upsert" \notin last.reached
                 /\ last.writes = <<>>
                 /\ last.tableAfter = last.tableBefore

\* eleven distinct unmatched identifiers: the rule fails, ten are reported,
\* and nothing is persisted
C6_Witness ==
    /\ last.dataset = "castaway_scores"
    /\ Len(last.foreign_keys) = 2
    /\ last.foreign_keys[1].status = "failed"
    /\ Len(last.foreign_keys[1].sample_records) = SAMPLE_LIMIT
    /\ Len(last.validated.rows) > SAMPLE_LIMIT
    /\ last.error = "ValueError"

\* an unmatched tuple that occurs in two rows is sampled once
C6_WitnessDistinct ==
    /\ last.dataset = "castaway_scores"
    /\ Len(last.validated.rows) = 2
    /\ last.validated.rows[1]["castaway_id"] = last.validated.rows[2]["castaway_id"]
    /\ Len(last.foreign_keys) = 2
    /\ last.foreign_keys[1].status = "failed"
    /\ Len(last.foreign_keys[1].sample_records) = 1

\* C7: a foreign-key rule whose reference dataset has not been loaded earlier
\* in the current run, or whose target columns are absent from the incoming
\* dataframe, gets status skipped and never makes the validation fail.
C7_SkippedUnlessLoadedInRun ==
    \A i \in 1..Len(last.foreign_keys) :
        LET rule == FOREIGN_KEY_RULES(last.dataset)[i]
            res  == last.foreign_keys[i]
        IN  (\/ rule.reference_dataset \notin last.loadedBefore
             \/ \E k \in 1..Len(rule.target_columns) :
                   rule.target_columns[k] \notin last.validated.columns)
            => res.status = "skipped"

\* the conflict-key values of the rows of a frame or table
KeyTuples(rows, ds) ==
    [i \in 1..Len(rows) |->
        [k \in 1..Len(UniqueConstraintCols(ds)) |-> rows[i][UniqueConstraintCols(ds)[k]]]]

\* the same dataset and raw dataframe loaded by two consecutive calls, both
\* of which return normally
Reloaded ==
    /\ last.dataset # "none"
    /\ prev.dataset = last.dataset
    /\ prev.raw = last.raw
    /\ UniqueConstraintCols(last.dataset) # <<>>
    /\ prev.error = "none" /\ last.error = "none"

\* C1 as stated: loading the same unchanged dataset twice with a non-empty
\* conflict-column set yields, on the second load, no inserted key and an
\* updated count equal to the number of rows of the dataset, and the table
\* holds the same rows after the second load as after the first.
C1_ReloadIdempotent ==
    Reloaded =>
        /\ last.upsert.inserted_keys = <<>>
        /\ last.upsert.updated = Len(last.raw.rows)
        /\ last.tableAfter = prev.tableAfter

LineageColumns == {"ingest_run_id", "ingested_at"}

\* C1 amended: when in addition truncation is not in effect for the second
\* load and no conflict-key value handed to the upsert is null (unless the
\* unique index treats nulls as equal), the second load inserts no key,
\* updates as many rows as are handed to the upsert, and leaves the table
\* with the same rows up to the lineage columns ingest_run_id and
\* ingested_at of the rows of the dataset, which carry the values of the
\* second load.
C1_ReloadIdempotentAmended ==
    (/\ Reloaded
     /\ ~(/\ params.environment # "prod"
          /\ (last.truncate = "True"
                \/ (last.truncate = "None" /\ params.truncate_on_load)))
     /\ (params.nulls_distinct =>
            \A i \in 1..Len(last.frame.rows) :
               \A k \in 1..Len(KeyTuples(last.frame.rows, last.dataset)[i]) :
                  KeyTuples(last.frame.rows, last.dataset)[i][k] # NULL))
    =>
        /\ last.upsert.inserted_keys = <<>>
        /\ last.upsert.updated = Len(last.frame.rows)
        /\ Len(last.tableAfter) = Len(prev.tableAfter)
        /\ \A i \in 1..Len(last.tableAfter) :
              LET loaded == {j \in 1..Len(last.frame.rows) :
                                KeyTuples(last.frame.rows, last.dataset)[j]
                                   = KeyTuples(last.tableAfter, last.dataset)[i]}
              IN  \A c \in DOMAIN last.tableAfter[i] :
                     IF c \in LineageColumns /\ loaded # {}
                     THEN \E j \in loaded : last.tableAfter[i][c] = last.frame.rows[j][c]
                     ELSE last.tableAfter[i][c] = prev.tableAfter[i][c]

\* two rows loaded twice in upsert mode: both updated, none inserted, and the
\* stored rows carry the second load's timestamp
C1_Witness ==
    /\ Reloaded
    /\ ~params.truncate_on_load
    /\ Len(last.frame.rows) = 2
    /\ last.upsert.updated = 2
    /\ last.upsert.inserted_keys = <<>>
    /\ Len(last.tableAfter) = 2
    /\ last.tableAfter[1]["ingested_at"] # prev.tableAfter[1]["ingested_at"]

\* the latest call's validation did not pass: it raised, or recorded a
\* summary with status failed
ValidationFailed ==
    /\ last.error \in {"ValueError", "KeyError"}
    /\ last.reached = {"rules"}

C15_WitnessRegistered ==
    /\ nloads = 1 /\ last.dataset = "castaway_details" /\ last.error = "none"
    /\ REFERENCE_CACHE = [d \in {"castaway_details"} |-> {<<"c1">>, <<"c2">>}]

\* finalise_validation_reports has just ended a run: no load was made since
RunFinalised == current_run > 1 /\ loadedInRun = {}

\* C17: after finalise_validation_reports has returned or raised at the end
\* of a run, whatever loads the run made, the issue ledger DATA_ISSUES is
\* empty.
C17_LedgerEmptyAfterRun ==
    RunFinalised => DATA_ISSUES = <<>>

\* C18: after finalise_validation_reports has executed at the end of a run,
\* the ReferenceCache holds no snapshot, so no foreign-key rule of a later
\* run is evaluated against a snapshot of an earlier run.
C18_CacheEmptyAfterRun ==
    RunFinalised => DOMAIN REFERENCE_CACHE = {}

\* C19: when the upsert batch of a dataset fails at the storage layer,
\* load_dataset_to_table raises, none of the rows of the batch is persisted
\* and the target table holds exactly the rows it held before the call.
C19_FailedUpsertLeavesTable ==
    (nloads >= 1 /\ "upsert" \in last.reached /\ ~last.upsert.ok) =>
        /\ last.error = "RuntimeError"
        /\ last.tableAfter = last.tableBefore

\* the order in which the specification lists the steps of one dataset load
StepOrder == <<"remediation", "schema", "integrity", "coercion", "upsert">>

\* the position of a step in StepOrder
StepRank(step) == CHOOSE k \in 1..Len(StepOrder) : StepOrder[k] = step

\* C21: within one dataset load the steps run in the order remediation,
\* schema validation, integrity checking, type coercion, upsert: a step
\* that ran after another stands after it in that order, so schema
\* validation is over before the integrity checks start and the integrity
\* checks are over before type coercion is applied.
C21_StepsInOrder ==
    nloads >= 1 =>
        \A i, j \in 1..Len(last.steps) :
            i < j => StepRank(last.steps[i]) < StepRank(last.steps[j])

\* the latest call was left by the ValueError of the uniqueness rule
UniqueRuleFailed ==
    /\ nloads >= 1
    /\ last.error = "ValueError"
    /\ last.steps = <<"remediation", "integrity">>
    /\ UniqueConstraintCols(last.dataset) # <<>>
    /\ Range(UniqueConstraintCols(last.dataset)) \subseteq last.validated.columns
    /\ CheckUniqueConstraint(last.validated.rows, UniqueConstraintCols(last.dataset),
                             NullableUniqueColumns(last.dataset)).raised

\* the latest call was left by the ValueError of a failed foreign-key rule
ForeignKeyRuleFailed ==
    /\ nloads >= 1
    /\ last.error = "ValueError"
    /\ \E i \in 1..Len(last.foreign_keys) : last.foreign_keys[i].status = "failed"

\* C22: whenever validation of a dataset fails on a uniqueness rule or on
\* a foreign-key rule, a validation summary of that dataset with status
\* failed has been recorded in VALIDATION_SUMMARIES by the time the error
\* is raised.
C22_FailureSummaryRecorded ==
    (UniqueRuleFailed \/ ForeignKeyRuleFailed) =>
        /\ last.dataset \in DOMAIN VALIDATION_SUMMARIES
        /\ VALIDATION_SUMMARIES[last.dataset].status = "failed"

\* the deduplicated_rows events in the ledger and in the validation summaries
DeduplicationEvents ==
    {DATA_ISSUES[i] : i \in {j \in 1..Len(DATA_ISSUES) :
                                DATA_ISSUES[j].issue_type = "deduplicated_rows"}}
    \cup UNION {{VALIDATION_SUMMARIES[d].issues[i] :
                    i \in {j \in 1..Len(VALIDATION_SUMMARIES[d].issues) :
                              VALIDATION_SUMMARIES[d].issues[j].issue_type
                                 = "deduplicated_rows"}} :
                 d \in DOMAIN VALIDATION_SUMMARIES}

\* C26: every deduplicated_rows event of the remediation has rows_removed
\* equal to the row count before minus the row count after and carries the
\* removed rows and the retained rows themselves, not only counts.
C26_DeduplicationAudited ==
    \A e \in DeduplicationEvents :
        /\ e.rows_removed = e.before - e.after
        /\ {"removed_rows", "result_rows"} \subseteq DOMAIN e
        /\ Len(e.removed_rows) = e.rows_removed

\* C29: after load_dataset_to_table has returned without an exception for a
\* dataset, the issue ledger DATA_ISSUES holds no event of that dataset: the
\* events registered during the load, those of type coercion included, have
\* been drained into the dataset's validation summary handling.
C29_LedgerDrainedAfterLoad ==
    (nloads >= 1 /\ last.error = "none") =>
        \A i \in 1..Len(DATA_ISSUES) : DATA_ISSUES[i].dataset # last.dataset

(***************************************************************************)
(* Specification SpecUpsert: _upsert_dataframe applied to every small      *)
(* table over the key columns k1, k2 and the value column v, every small   *)
(* batch (with or without the value column), with and without conflict     *)
(* columns, under both null semantics of the unique index.                 *)
(***************************************************************************)
UpKey == <<"k1", "k2">>
UpTableCols == {"k1", "k2", "v"}

UpRows(cols) ==
    {r \in [cols -> {"a", "b", "x", "y", NULL}] :
        /\ r["k1"] \in {"a", "b"}
        /\ r["k2"] \in {"a", NULL}
        /\ "v" \in cols => r["v"] \in {"x", "y"}}

\* the tables a unique index on (k1, k2) admits
UpTables(nulls_distinct) ==
    {t \in SeqsUpTo(UpRows(UpTableCols), MaxTableRows) :
        \A i, j \in 1..Len(t) :
            (i # j) => ~Conflicts(t[i], t[j], UpKey, nulls_distinct)}

UpBatches ==
    UNION {[columns : {cols}, dtypes : {[c \in cols |-> "object"]},
            rows : SeqsUpTo(UpRows(cols), MaxBatch)] :
              cols \in {UpTableCols, Range(UpKey)}}

UpInit ==
    /\ \E nd \in BOOLEAN :
          up \in [phase : {"call"}, nulls_distinct : {nd}, table : UpTables(nd),
                  df : UpBatches, conflict_columns : {UpKey, <<>>}]
    /\ uq = Idle /\ fk = Idle /\ am = Idle /\ vh = Idle /\ jn = Idle
    /\ mn = Idle /\ ev = Idle
    /\ PipelineIdle

ApplyUpsert ==
    /\ up.phase = "call"
    /\ up' = [phase |-> "done", nulls_distinct |-> up.nulls_distinct,
              table |-> up.table, df |-> up.df,
              conflict_columns |-> up.conflict_columns,
              result |-> UpsertDataframe(up.table, up.df, UpTableCols,
                                         up.conflict_columns, up.nulls_distinct)]
    /\ UNCHANGED <<mn, ev, vh, jn, uq, fk, am, pipeline>>

UpNext == ApplyUpsert

SpecUpsert == UpInit /\ [][UpNext]_vars

\* the conflict key of a row of the call under study
UpKeyOf(row) == <<row["k1"], row["k2"]>>

\* the call the claim is about: conflict columns given, a non-key column in
\* the batch, the conflict keys of the batch pairwise distinct
UpsertCase ==
    /\ up.phase = "done"
    /\ up.conflict_columns # <<>>
    /\ "v" \in up.df.columns
    /\ \A i, j \in 1..Len(up.df.rows) :
          UpKeyOf(up.df.rows[i]) = UpKeyOf(up.df.rows[j]) => i = j

\* what the claim promises of the call under study
UpsertClassified ==
    LET res  == up.result
        rows == up.df.rows
        present(key) == \E i \in 1..Len(up.table) : UpKeyOf(up.table[i]) = key
    IN  /\ res.ok
        /\ \A i \in 1..Len(rows) :
              /\ ~present(UpKeyOf(rows[i])) => UpKeyOf(rows[i]) \in Range(res.inserted_keys)
              /\ present(UpKeyOf(rows[i])) => UpKeyOf(rows[i]) \in Range(res.updated_keys)
              /\ \A j \in 1..Len(res.rows) :
                    UpKeyOf(res.rows[j]) = UpKeyOf(rows[i]) => res.rows[j]["v"] = rows[i]["v"]
              /\ \E j \in 1..Len(res.rows) : UpKeyOf(res.rows[j]) = UpKeyOf(rows[i])
        /\ Range(res.inserted_keys) \cap Range(res.updated_keys) = {}
        /\ res.inserted + res.updated = Len(rows)
        /\ res.inserted = Len(res.inserted_keys) /\ res.updated = Len(res.updated_keys)

\* C2 as stated: with non-empty conflict columns, a non-key column and
\* pairwise distinct batch keys, every key absent from the table is reported
\* inserted, every key present is reported updated, none is reported as
\* both, the counts add up to the batch size, and the stored row of each key
\* carries the incoming non-key values.
C2_UpsertClassifies ==
    UpsertCase => UpsertClassified

\* C2 amended: the same, for batches none of whose conflict-key values is
\* null (or a unique index that treats nulls as equal).
C2_UpsertClassifiesNonNullKeys ==
    (/\ UpsertCase
     /\ (up.nulls_distinct =>
            \A i \in 1..Len(up.df.rows) :
               up.df.rows[i]["k1"] # NULL /\ up.df.rows[i]["k2"] # NULL))
    => UpsertClassified

\* a batch of one stored key and one new key: one update, one insert
C2_Witness ==
    /\ UpsertCase
    /\ Len(up.table) = 1
    /\ Len(up.df.rows) = 2
    /\ up.result.inserted = 1 /\ up.result.updated = 1
    /\ UpKeyOf(up.df.rows[2]) = UpKeyOf(up.table[1])
    /\ up.df.rows[2]["v"] # up.table[1]["v"]
    /\ up.result.rows[1]["v"] = up.df.rows[2]["v"]

(***************************************************************************)
(* Specification SpecAdvantage: the advantage_movement branch of           *)
(* _apply_dataset_specific_rules applied to raw frames of one row with     *)
(* every castaway_id and played_for_id text of the bounds (with the name   *)
(* columns castaway and played_for: every castaway_id text and a few       *)
(* played_for_id texts), and to frames of several rows with a few of them. *)
(* The column day is carried through untouched and differs from row to     *)
(* row.                                                                    *)
(***************************************************************************)
HolderSegments == {"a", " a", " b", " c", "", " null"}
TargetSegments == {"a", " b"}

\* the comma-separated texts of at most n of the segments, and None
Texts(segments, n) == {NoText} \cup (SeqsUpTo(segments, n) \ {<<>>})

AdvBaseColumns == {"version_season", "advantage_id", "sequence_id", "day"}

AdvColumnSets ==
    {AdvBaseColumns \cup {"castaway_id"},
     AdvBaseColumns \cup {"played_for_id"},
     AdvBaseColumns \cup {"castaway_id", "played_for_id"},
     AdvBaseColumns \cup {"castaway_id", "played_for_id", "castaway", "played_for"}}

AdvRow(cols, holder, target, name, sequence_id) ==
    [c \in cols |->
        CASE c = "version_season" -> "s1"
          [] c = "advantage_id" -> "1"
          [] c = "sequence_id" -> sequence_id
          [] c = "day" -> "0"
          [] c = "castaway_id" -> holder
          [] c = "played_for_id" -> target
          [] c = "castaway" -> name
          [] c = "played_for" -> <<"a">>]

\* the rows of a frame over cols; few stands for the frames of several rows
AdvRows(cols, few) ==
    {AdvRow(cols, h, t, n, q) :
        h \in IF "castaway_id" \notin cols THEN {NoText}
              ELSE IF few THEN {<<"a">>, <<"b">>, <<"a", " b">>}
              ELSE Texts(HolderSegments, MaxHolders) \cup {<<"none">>},
        t \in IF "played_for_id" \notin cols THEN {NoText}
              ELSE IF few \/ "played_for" \in cols THEN {NoText, <<"a", " b">>}
              ELSE Texts(TargetSegments, MaxTargets),
        n \in IF "castaway" \notin cols THEN {NoText}
              ELSE IF few THEN {<<"a", " b">>}
              ELSE {NoText, <<"a", " b">>},
        q \in IF few THEN {"1", "2"} ELSE {"1"}}

\* day numbered by position
Numbered(rows) == [i \in 1..Len(rows) |-> [rows[i] EXCEPT !["day"] = ToString(i)]]

\* the frames over cols: of one row, and of several of the few rows
AdvFrames(cols) ==
    {[columns |-> cols, dtypes |-> [c \in cols |-> "object"], rows |-> Numbered(rows)] :
        rows \in {<<r>> : r \in AdvRows(cols, FALSE)}
                  \cup SeqsUpTo(AdvRows(cols, TRUE), MaxAdvRows)}

AdvInit ==
    /\ \E cols \in AdvColumnSets :
          \E df \in AdvFrames(cols) :
             \E valid \in {{}, {"a", "b"}} :
                am = [phase |-> "call", df |-> df, valid_castaway_ids |-> valid]
    /\ up = Idle /\ uq = Idle /\ fk = Idle /\ vh = Idle /\ jn = Idle
    /\ mn = Idle /\ ev = Idle
    /\ PipelineIdle

Remediate ==
    /\ am.phase = "call"
    /\ am' = [phase |-> "done", df |-> am.df,
              valid_castaway_ids |-> am.valid_castaway_ids,
              result |-> WithSourceDataset("advantage_movement",
                            AdvantageMovementRules(am.df, am.valid_castaway_ids)),
              issues |-> AdvantageIssues(am.df, am.valid_castaway_ids)]
    /\ UNCHANGED <<mn, ev, vh, jn, up, uq, fk, pipeline>>

AdvNext == Remediate

SpecAdvantage == AdvInit /\ [][AdvNext]_vars

\* the identities a text holds: its comma-separated tokens, trimmed, the
\* empty ones left out
Identities(text) ==
    SelectSeq([i \in 1..Len(text) |-> StripSegment(text[i])], LAMBDA t : t # "")

\* the rows of the result that stem from input row i
OutputOf(i) == SelectSeq(am.result.rows, LAMBDA r : r["day"] = ToString(i))

\* the identities but the one at position p, in their order
OtherIdentities(ids, p) ==
    [k \in 1..(Len(ids) - 1) |-> IF k < p THEN ids[k] ELSE ids[k + 1]]

\* input row i is exploded as the claim says
ExplodedByHolder(i) ==
    LET ids == Identities(am.df.rows[i]["castaway_id"])
        out == OutputOf(i)
    IN  /\ Len(out) = Len(ids)
        /\ \A p \in 1..Len(out) :
              /\ out[p]["castaway_id"] = ids[p]
              /\ out[p]["co_castaway_ids"] = JoinIds(OtherIdentities(ids, p))
        /\ \A p, q \in 1..Len(out) :
              out[p]["castaway_id"] = out[q]["castaway_id"] => p = q

\* C10 as stated: a row whose castaway_id holds N > 1 comma-separated
\* identities yields exactly N output rows, with distinct castaway_id taken
\* from the list in order, each with co_castaway_ids the other N-1
\* identities joined in their order.
C10_HolderExplosion ==
    (am.phase = "done" /\ "castaway_id" \in am.df.columns)
    => \A i \in 1..Len(am.df.rows) :
          Len(Identities(am.df.rows[i]["castaway_id"])) > 1 => ExplodedByHolder(i)

\* the movement keys input row i is exploded into
MovementKeys(i) ==
    LET row     == am.df.rows[i]
        cleaned(text, Clean(_)) ==
            IF Identities(text) = <<>> THEN {NULL}
            ELSE {Clean(t) : t \in Range(Identities(text))}
        target(t) == CleanTarget(t, am.valid_castaway_ids)
    IN  {<<row["sequence_id"], h, t>> :
            h \in cleaned(row["castaway_id"], CleanText),
            t \in IF "played_for_id" \in am.df.columns
                  THEN cleaned(row["played_for_id"], target) ELSE {NULL}}

\* C10 amended: the same, for a row whose identities are pairwise distinct
\* and none of them a null marker, whose played_for_id (if the column is
\* there) holds at most one target, and none of whose movement keys
\* (version_season, castaway_id, advantage_id, sequence_id, played_for_id)
\* is already produced by an earlier row of the input.
C10_HolderExplosionSingleTarget ==
    (am.phase = "done" /\ "castaway_id" \in am.df.columns)
    => \A i \in 1..Len(am.df.rows) :
          LET ids == Identities(am.df.rows[i]["castaway_id"])
          IN  (/\ Len(ids) > 1
               /\ \A p, q \in 1..Len(ids) : ids[p] = ids[q] => p = q
               /\ \A p \in 1..Len(ids) : Lower(ids[p]) \notin NullMarkers
               /\ "played_for_id" \in am.df.columns
                     => Len(Identities(am.df.rows[i]["played_for_id"])) <= 1
               /\ \A j \in 1..(i - 1) : MovementKeys(j) \cap MovementKeys(i) = {})
              => ExplodedByHolder(i)

\* three holders and one target: three rows, the first with the other two
\* holders as its co-identities
C10_Witness ==
    /\ am.phase = "done"
    /\ {"castaway_id", "played_for_id"} \subseteq am.df.columns
    /\ Len(am.df.rows) = 1
    /\ am.df.rows[1]["castaway_id"] = <<"a", " c", " b">>
    /\ am.df.rows[1]["played_for_id"] = <<"a">>
    /\ Len(am.result.rows) = 3
    /\ am.result.rows[1]["castaway_id"] = "a"
    /\ am.result.rows[1]["co_castaway_ids"] = <<"c", " b">>
    /\ am.result.rows[1]["joint_play"]

\* the second of two rows, exploded next to the first
C10_WitnessSecondRow ==
    /\ am.phase = "done"
    /\ "castaway_id" \in am.df.columns
    /\ Len(am.df.rows) = 2
    /\ am.df.rows[1]["castaway_id"] = <<"a">>
    /\ am.df.rows[2]["castaway_id"] = <<"a", " b">>
    /\ am.df.rows[1]["sequence_id"] # am.df.rows[2]["sequence_id"]
    /\ Len(am.result.rows) = 3
    /\ Len(OutputOf(2)) = 2

(***************************************************************************)
(* Specification SpecUnique: _check_unique_constraint applied to every     *)
(* small dataframe over the unique columns c1, c2 and every nullable-      *)
(* exemption configuration.                                                *)
(***************************************************************************)
UqVal == {NULL, "a", "b"}
UqColumns == <<"c1", "c2">>
UqRow == [Range(UqColumns) -> UqVal]

UqInit ==
    /\ uq \in [phase : {"call"}, rows : SeqsUpTo(UqRow, MaxRows),
               nullable : SUBSET Range(UqColumns)]
    /\ fk = Idle /\ up = Idle /\ am = Idle /\ vh = Idle /\ jn = Idle
    /\ mn = Idle /\ ev = Idle
    /\ PipelineIdle

CheckUnique ==
    /\ uq.phase = "call"
    /\ uq' = [phase |-> "done", rows |-> uq.rows, nullable |-> uq.nullable,
              result |-> CheckUniqueConstraint(uq.rows, UqColumns, uq.nullable)]
    /\ UNCHANGED <<mn, ev, vh, jn, fk, up, am, pipeline>>

UqNext == CheckUnique

SpecUnique == UqInit /\ [][UqNext]_vars

\* C5: _check_unique_constraint raises if and only if some row has a null in
\* a unique-constraint column that is not nullable-exempt, or two rows whose
\* nullable-exempt columns are all non-null agree on every unique-constraint
\* column; rows with a null in a nullable-exempt column never cause a failure
\* by themselves.
C5_UniqueFailsIff ==
    uq.phase = "done" =>
        LET rows == uq.rows
            cols == Range(UqColumns)
            nonExemptNull ==
                \E i \in 1..Len(rows) : \E c \in cols \ uq.nullable : rows[i][c] = NULL
            eligible(i) == \A c \in uq.nullable : rows[i][c] # NULL
            duplicate ==
                \E i, j \in 1..Len(rows) :
                    /\ i # j /\ eligible(i) /\ eligible(j)
                    /\ \A c \in cols : rows[i][c] = rows[j][c]
        IN  /\ uq.result.raised <=> (nonExemptNull \/ duplicate)
            /\ (uq.result.status = "failed") <=> uq.result.raised

\* two rows that agree on every unique column, null in the exempt column c2,
\* and the check passes
C5_Witness ==
    /\ uq.phase = "done"
    /\ uq.nullable = {"c2"}
    /\ Len(uq.rows) >= 2
    /\ uq.rows[1] = uq.rows[2]
    /\ uq.rows[1]["c2"] = NULL /\ uq.rows[1]["c1"] # NULL
    /\ ~uq.result.raised

\* a duplicate among eligible rows with an exemption configured: the check raises
C5_WitnessRaises ==
    /\ uq.phase = "done"
    /\ uq.nullable = {"c2"}
    /\ Len(uq.rows) = 3
    /\ uq.rows[1] = uq.rows[3] /\ ~AnyNull(uq.rows[1], Range(UqColumns))
    /\ uq.rows[2]["c2"] = NULL
    /\ uq.result.raised

(***************************************************************************)
(* Specification SpecFK: one foreign-key rule over the target columns      *)
(* t1, t2 evaluated on small dataframes (with or without the target        *)
(* columns), on long dataframes that overflow the sample limit, and on     *)
(* every state of the reference snapshot (absent, empty, non-empty).       *)
(***************************************************************************)
FkVal == {"a", "b"}
FkTarget == <<"t1", "t2">>
FkRefTuples == [1..Len(FkTarget) -> FkVal]

FkSmallFrames ==
    UNION {[columns : {cols}, rows : SeqsUpTo([cols -> FkVal \cup {NULL}], MaxFkRows)] :
              cols \in {Range(FkTarget), {"t1"}}}

\* n rows with pairwise distinct t1 and the same t2 (a value, or null)
FkLongFrames ==
    {[columns |-> Range(FkTarget),
      rows |-> [i \in 1..n |-> [c \in Range(FkTarget) |->
                                  IF c = "t1" THEN LongVals[i] ELSE t2]]] :
        n \in (SAMPLE_LIMIT + 1)..Len(LongVals), t2 \in {"a", NULL}}

FkRules ==
    [target_columns : {FkTarget}, reference_dataset : {"ref"},
     reference_columns : {FkTarget}, allow_null : BOOLEAN]

FkCaches ==
    {<<>>} \cup {[d \in {"ref"} |-> keys] : keys \in SUBSET FkRefTuples}

FkInit ==
    /\ fk \in [phase : {"call"}, rule : FkRules,
               df : FkSmallFrames \cup FkLongFrames, cache : FkCaches]
    /\ uq = Idle /\ up = Idle /\ am = Idle /\ vh = Idle /\ jn = Idle
    /\ mn = Idle /\ ev = Idle
    /\ PipelineIdle

CheckForeignKey ==
    /\ fk.phase = "call"
    /\ fk' = [phase |-> "done", rule |-> fk.rule, df |-> fk.df, cache |-> fk.cache,
              result |-> FkCheckRule(fk.rule, fk.df, fk.cache)]
    /\ UNCHANGED <<mn, ev, vh, jn, uq, up, am, pipeline>>

FkNext == CheckForeignKey

SpecFK == FkInit /\ [][FkNext]_vars

\* C8: for an evaluated foreign-key rule with allow_null true, the rows with a
\* null in any target column are excluded from matching and never make the
\* rule fail (the rule fails exactly when a fully non-null target tuple is
\* unmatched), while the result reports their exact count (null_count) and a
\* sample of at most 10 of them, in row order.
C8_AllowNullExcluded ==
    (fk.phase = "done" /\ fk.rule.allow_null /\ fk.result.status # "skipped") =>
        LET rows == fk.df.rows
            tc   == fk.rule.target_columns
            nullIdx == {i \in 1..Len(rows) : \E k \in 1..Len(tc) : rows[i][tc[k]] = NULL}
            res  == fk.result
        IN  /\ res.null_count = Cardinality(nullIdx)
            /\ Len(res.null_samples) =
                  IF Cardinality(nullIdx) <= 10 THEN Cardinality(nullIdx) ELSE 10
            /\ \A k \in 1..Len(res.null_samples) :
                  \E i \in nullIdx :
                     /\ res.null_samples[k] = [m \in 1..Len(tc) |-> rows[i][tc[m]]]
                     /\ Cardinality({j \in nullIdx : j < i}) = k - 1
            /\ (res.status = "failed") <=>
                  \E i \in (1..Len(rows)) \ nullIdx :
                     [m \in 1..Len(tc) |-> rows[i][tc[m]]] \notin fk.cache["ref"]
            /\ \A k \in 1..Len(res.sample_records) :
                  \A m \in 1..Len(tc) : res.sample_records[k][m] # NULL

\* C27: for an evaluated foreign-key rule with allow_null false, a row with
\* a null in a target column makes the rule fail: it is not left out of the
\* check so that the rule passes.
C27_NullFailsStrictRule ==
    (/\ fk.phase = "done" /\ ~fk.rule.allow_null
     /\ fk.result.reason = "none"
     /\ \E i \in 1..Len(fk.df.rows) :
           \E k \in 1..Len(fk.rule.target_columns) :
              fk.df.rows[i][fk.rule.target_columns[k]] = NULL)
        => fk.result.status = "failed"

\* a null row next to a matching row: the rule passes and counts the null row
C8_Witness ==
    /\ fk.phase = "done" /\ fk.rule.allow_null
    /\ fk.result.status = "passed"
    /\ fk.result.null_count = 1
    /\ Len(fk.df.rows) = 2
    /\ Len(fk.result.null_samples) = 1

\* more than ten null rows: the count is exact and the sample is cut at ten
C8_WitnessCap ==
    /\ fk.phase = "done" /\ fk.rule.allow_null
    /\ fk.result.status = "passed"
    /\ fk.result.null_count > SAMPLE_LIMIT
    /\ Len(fk.result.null_samples) = SAMPLE_LIMIT

(***************************************************************************)
(* Specification SpecVote: the vote_history branch of                      *)
(* _apply_dataset_specific_rules applied to raw frames of one row with     *)
(* every version_season, challenge_id and sog_id of the model, to frames   *)
(* of several rows with a few of them, against every content of            *)
(* bronze.challenge_description and bronze.challenge_results below.        *)
(***************************************************************************)
VoteBaseColumns == {"version_season", "challenge_id"}

VoteColumnSets ==
    {VoteBaseColumns, VoteBaseColumns \cup {"sog_id"},
     VoteBaseColumns \cup {"sog_id", "castaway_id"}}

VoteRow(cols, version_season, challenge_id, sog_id, castaway_id) ==
    [c \in cols |->
        CASE c = "version_season" -> version_season
          [] c = "challenge_id" -> challenge_id
          [] c = "sog_id" -> sog_id
          [] c = "castaway_id" -> castaway_id]

\* the rows of a frame over cols; few stands for the frames of several rows
VoteRows(cols, few) ==
    {VoteRow(cols, t[1], t[2], t[3], k) :
        t \in IF few
              THEN {<<"s1", "8", "1">>, <<"s1", "8", "2">>, <<"s1", "7", "1">>,
                    <<"s1_", "8", "1">>}
              ELSE ({"s1", "s1_", NULL} \X {"7", "8", NULL}
                      \X (IF "sog_id" \in cols THEN {"1", "2", NULL, "x"} ELSE {NULL}))
                   \cup {<<"US37", "26", "1">>, <<"s1", "x", "1">>, <<"s1", "1.5", "1">>},
        k \in IF "castaway_id" \in cols /\ ~few THEN {"c1_", "none"} ELSE {"c1"}}

VoteFrames(cols) ==
    {[columns |-> cols, dtypes |-> [c \in cols |-> "object"], rows |-> rows] :
        rows \in {<<r>> : r \in VoteRows(cols, FALSE)}
                  \cup SeqsUpTo(VoteRows(cols, TRUE), MaxVoteRows)}

\* the contents of bronze.challenge_description, as (version_season, challenge_id)
DescriptionTables ==
    {{[version_season |-> k[1], challenge_id |-> k[2]] : k \in keys} :
        keys \in SUBSET {<<"s1", "7">>, <<"s1", "8">>, <<"s1_", "7">>, <<"US37", "25">>}}

\* the contents of bronze.challenge_results, as (version_season, sog_id, challenge_id)
ResultsTables ==
    {{[version_season |-> k[1], sog_id |-> k[2], challenge_id |-> k[3]] : k \in keys} :
        keys \in SUBSET {<<"s1", "1", "7">>, <<"s1", "1", "8">>, <<"s1_", "1", "7">>,
                         <<"s1", "2", "7">>, <<"s1", "2", "8">>}}

VoteInit ==
    /\ \E cols \in VoteColumnSets :
          \E df \in VoteFrames(cols) :
             \E description \in DescriptionTables :
                \E results \in ResultsTables :
                   vh = [phase |-> "call", df |-> df, description |-> description,
                         results |-> results]
    /\ am = Idle /\ up = Idle /\ uq = Idle /\ fk = Idle /\ jn = Idle
    /\ mn = Idle /\ ev = Idle
    /\ PipelineIdle

RemediateVotes ==
    /\ vh.phase = "call"
    /\ vh' = [phase |-> "done", df |-> vh.df, description |-> vh.description,
              results |-> vh.results,
              result |-> VoteHistoryRules(vh.df, vh.description, vh.results)]
    /\ UNCHANGED <<mn, ev, am, up, uq, fk, jn, pipeline>>

VoteNext == RemediateVotes

SpecVote == VoteInit /\ [][VoteNext]_vars

\* a challenge_description row holds the row's (version_season, challenge_id)
KeyExists(row) ==
    \E d \in vh.description :
        /\ d["version_season"] # NULL /\ Strip(d["version_season"]) = Strip(row["version_season"])
        /\ d["challenge_id"] = row["challenge_id"]

\* the distinct challenge_id that challenge_results holds for the row's
\* (version_season, sog_id)
StageCandidates(row) ==
    {r["challenge_id"] :
        r \in {d \in vh.results :
                  /\ d["challenge_id"] # NULL
                  /\ d["version_season"] # NULL
                  /\ Strip(d["version_season"]) = Strip(row["version_season"])
                  /\ row["sog_id"] # NULL /\ d["sog_id"] = row["sog_id"]}}

\* a challenge_id_remediation event holds the row as it was and as it is
StageEventRecords(old_row, new_row) ==
    \E k \in 1..Len(vh.result.issues) :
        LET e == vh.result.issues[k]
        IN  /\ e.issue_type = "challenge_id_remediation"
            /\ \E m \in 1..Len(e.original_rows) :
                  e.original_rows[m] = old_row /\ e.result_rows[m] = new_row

\* the rows the stage-of-game step looks at: version_season and
\* challenge_id present
VoteCase ==
    /\ vh.phase = "done" /\ vh.result.error = "none"
    /\ "sog_id" \in vh.df.columns

VoteReferencing(i) ==
    /\ vh.result.staged.rows[i]["version_season"] # NULL
    /\ vh.result.staged.rows[i]["challenge_id"] # NULL

\* C11 as stated: a row whose (version_season, challenge_id) is not in
\* challenge_description has its challenge_id replaced if and only if
\* challenge_results holds exactly one distinct challenge_id for its
\* (version_season, sog_id); it is then replaced by that id and a
\* stage-remediation event records the old and the new value; otherwise the
\* challenge_id is left unchanged, and a row whose key exists is never
\* changed by the step.
C11_StageRemediation ==
    VoteCase =>
        \A i \in 1..Len(vh.result.staged.rows) :
            LET old == vh.result.staged.rows[i]
                new == vh.result.df.rows[i]
                candidates == StageCandidates(old)
            IN  VoteReferencing(i) =>
                  IF KeyExists(old) \/ Cardinality(candidates) # 1
                  THEN new = old
                  ELSE /\ new = [old EXCEPT !["challenge_id"] = CHOOSE c \in candidates : TRUE]
                       /\ new # old
                       /\ StageEventRecords(old, new)

\* C11 amended: the same, the replacement taking place if and only if
\* challenge_results holds exactly one distinct challenge_id for the row's
\* (version_season, sog_id) and that challenge_id is not the row's own.
C11_StageRemediationOtherId ==
    VoteCase =>
        \A i \in 1..Len(vh.result.staged.rows) :
            LET old == vh.result.staged.rows[i]
                new == vh.result.df.rows[i]
                candidates == StageCandidates(old)
            IN  VoteReferencing(i) =>
                  IF KeyExists(old) \/ Cardinality(candidates) # 1
                        \/ candidates = {old["challenge_id"]}
                  THEN /\ new = old
                       /\ \A other \in [DOMAIN old -> {"7", "8", "25", "26", NULL}] :
                             ~StageEventRecords(old, other)
                  ELSE /\ new = [old EXCEPT !["challenge_id"] = CHOOSE c \in candidates : TRUE]
                       /\ new # old
                       /\ StageEventRecords(old, new)

\* challenge_id 8 is unknown, challenge_results holds only 7 for the stage:
\* the row gets 7 and one event records 8 and 7
C11_Witness ==
    /\ VoteCase
    /\ Len(vh.df.rows) = 1
    /\ vh.df.rows[1]["challenge_id"] = "8" /\ vh.df.rows[1]["sog_id"] = "1"
    /\ ~KeyExists(vh.result.staged.rows[1])
    /\ StageCandidates(vh.result.staged.rows[1]) = {"7"}
    /\ vh.result.df.rows[1]["challenge_id"] = "7"
    /\ Len(vh.result.issues) = 1
    /\ vh.result.issues[1].original_rows[1]["challenge_id"] = "8"
    /\ vh.result.issues[1].result_rows[1]["challenge_id"] = "7"

\* two candidates for the stage: the unknown challenge_id stays
C11_WitnessAmbiguous ==
    /\ VoteCase
    /\ Len(vh.df.rows) = 1
    /\ VoteReferencing(1)
    /\ ~KeyExists(vh.result.staged.rows[1])
    /\ Cardinality(StageCandidates(vh.result.staged.rows[1])) = 2
    /\ vh.result.df.rows[1] = vh.result.staged.rows[1]
    /\ vh.result.issues = <<>>

(***************************************************************************)
(* Specification SpecJourneys: one call of load_dataset_to_table on the    *)
(* journeys dataset, on raw frames of one row with every version_season,   *)
(* castaway and castaway_id of the model and frames of several rows with   *)
(* a few of them, against the contents of bronze.castaways below, which    *)
(* the store returns in any order.                                         *)
(***************************************************************************)
JourneyColumns == {"version_season", "episode", "sog_id", "event", "castaway_id", "castaway"}

JourneyColumnSets ==
    {JourneyColumns, JourneyColumns \ {"castaway_id"}, JourneyColumns \ {"castaway"},
     JourneyColumns \ {"event"}}

JourneyRow(cols, version_season, castaway, castaway_id, episode) ==
    [c \in cols |->
        CASE c = "version_season" -> version_season
          [] c = "castaway" -> castaway
          [] c = "castaway_id" -> castaway_id
          [] c = "episode" -> episode
          [] c = "sog_id" -> "1"
          [] c = "event" -> "e1"]

\* the rows of a frame over cols; few stands for the frames of several rows
JourneyRows(cols, few) ==
    {JourneyRow(cols, t[1], t[2], t[3], t[4]) :
        t \in IF few
              THEN {<<"s1", "Rob", NULL, "1">>, <<"s1", "Robb", NULL, "1">>,
                    <<"s1", "Zed", NULL, "2">>, <<"s1", "Rob", "c1", "1">>}
              ELSE {"s1", "s1_", NULL}
                      \X {"Rob", "Ro'b", "Rob C", "Robb", "Zed", NULL}
                      \X {NULL, "none", "c1", "c1_"} \X {"1"}}

JourneyFrames(cols) ==
    {[columns |-> cols, dtypes |-> [c \in cols |-> "object"], rows |-> rows] :
        rows \in {<<r>> : r \in JourneyRows(cols, FALSE)}
                  \cup SeqsUpTo(JourneyRows(cols, TRUE), MaxJourneyRows)}

CastawayRow(castaway_id, castaway, version_season) ==
    [castaway_id |-> castaway_id, castaway |-> castaway, version_season |-> version_season]

\* rows of bronze.castaways; few stands for the tables of several rows
CastawayRows(few) ==
    IF few
    THEN {CastawayRow("c1", "Rob", "s1"), CastawayRow("c2", "ROB", "s1"),
          CastawayRow("c2", "Rob C", "s1"), CastawayRow("c3", "Robb", "s1"),
          CastawayRow("c1", "Rob", "s2")}
    ELSE {CastawayRow(t[1], t[2], t[3]) :
             t \in ({"c1"} \X {"Rob", "ROB", "Ro'b", "Rob C", "Robb", "Zed"} \X {"s1"})
                   \cup {<<NULL, "Rob", "s1">>, <<"c1", NULL, "s1">>,
                          <<"c1", "Rob", NULL>>, <<"c1", "Rob", "s1_">>}}

\* the contents of bronze.castaways, a set of rows
CastawayTables ==
    {{r} : r \in CastawayRows(FALSE)}
    \cup {t \in SUBSET CastawayRows(TRUE) : Cardinality(t) <= MaxRefRows}

\* the orders a SELECT without ORDER BY can return the rows of a table in
Orders(table) ==
    {order \in [1..Cardinality(table) -> table] : Range(order) = table}

\* the rows bronze.journeys holds before the call
JourneyTables ==
    {<<>>,
     <<[c \in SchemaColumns(TableSchema("journeys")) |->
          CASE c = "row_id" -> "1" [] c = "version_season" -> "s1" [] c = "episode" -> "1"
            [] c = "sog_id" -> "1" [] c = "event" -> "e0" [] c = "castaway_id" -> "c1"
            [] c = "castaway" -> "Rob" [] c = "source_dataset" -> "journeys"
            [] c = "ingest_run_id" -> RunId(0) [] c = "ingested_at" -> Timestamp(0)]>>}

JourneysInit ==
    /\ \E cols \in JourneyColumnSets :
          \E df \in JourneyFrames(cols) :
             \E castaways \in CastawayTables :
                \E journeys \in JourneyTables :
                   \E truncate_on_load \in BOOLEAN :
                      jn = [phase |-> "call", df |-> df, castaways |-> castaways,
                            journeys |-> journeys, truncate_on_load |-> truncate_on_load]
    /\ am = Idle /\ up = Idle /\ uq = Idle /\ fk = Idle /\ vh = Idle
    /\ mn = Idle /\ ev = Idle
    /\ PipelineIdle

\* the state load_dataset_to_table starts from, bronze.castaways read in
\* the order fetched
JourneysState(fetched) ==
    [store |-> [t \in Tables \cup {"journeys"} |->
                   IF t = "journeys" THEN jn.journeys ELSE <<>>],
     castaways |-> fetched,
     refCache |-> <<>>, summaries |-> <<>>, ledger |-> <<>>, run |-> 1, now |-> 1,
     params |-> [environment |-> "dev", truncate_on_load |-> jn.truncate_on_load,
                 nulls_distinct |-> TRUE]]

LoadJourneys ==
    /\ jn.phase = "call"
    /\ \E fetched \in Orders(jn.castaways) :
          jn' = [phase |-> "done", df |-> jn.df, castaways |-> jn.castaways,
                 journeys |-> jn.journeys, truncate_on_load |-> jn.truncate_on_load,
                 fetched |-> fetched,
                 rules |-> JourneysRules(jn.df, fetched),
                 load |-> LoadDatasetToTable("journeys", jn.df, "None",
                                             JourneysState(fetched))]
    /\ UNCHANGED <<mn, ev, am, up, uq, fk, vh, pipeline>>

JourneysNext == LoadJourneys

SpecJourneys == JourneysInit /\ [][JourneysNext]_vars

\* row i of the raw frame has no castaway_id after the backfill steps
Unresolved(i) ==
    /\ "castaway_id" \in jn.df.columns
    /\ CleanText(jn.df.rows[i]["castaway_id"]) = NULL
    /\ JourneysFills(CleanCastawayId(jn.df), jn.fetched)[i].castaway_id = NULL

\* C12: journeys remediation never returns a dataframe with a row whose
\* castaway_id is null; if a row is still unresolved after the backfill steps
\* it raises, and load_dataset_to_table raises without persisting a journeys
\* row (no statement that writes is executed, bronze.journeys is as before).
C12_UnresolvedRaises ==
    jn.phase = "done" =>
        /\ jn.rules.error = "none" =>
              \A i \in 1..Len(jn.rules.df.rows) :
                 "castaway_id" \in jn.rules.df.columns
                    => jn.rules.df.rows[i]["castaway_id"] # NULL
        /\ (\E i \in 1..Len(jn.df.rows) : Unresolved(i)) =>
              /\ jn.rules.error # "none"
              /\ jn.load.error = jn.rules.error
              /\ jn.load.writes = <<>>
              /\ jn.load.store["journeys"] = jn.journeys

\* a frame of two rows, one resolved by the backfill and one not: the call
\* raises ValueError with truncation configured and a row in the table
C12_Witness ==
    /\ jn.phase = "done"
    /\ Len(jn.df.rows) = 2
    /\ Unresolved(2) /\ ~Unresolved(1)
    /\ jn.df.rows[1]["castaway_id"] = NULL
    /\ jn.truncate_on_load /\ jn.journeys # <<>>
    /\ jn.load.error = "ValueError"

\* every null castaway_id resolved: the rows are persisted with identifiers
C12_WitnessResolved ==
    /\ jn.phase = "done"
    /\ "castaway_id" \in jn.df.columns
    /\ \A i \in 1..Len(jn.df.rows) : jn.df.rows[i]["castaway_id"] = NULL
    /\ Len(jn.df.rows) = 2
    /\ jn.load.error = "none"
    /\ "upsert" \in jn.load.reached
    /\ \A i \in 1..Len(jn.load.frame.rows) : jn.load.frame.rows[i]["castaway_id"] # NULL

\* the castaway_id the backfill gives row i of the raw frame when
\* bronze.castaways is read in the order fetched (NULL: unresolved)
BackfillOutcome(i, fetched) ==
    JourneysFills(CleanCastawayId(jn.df), fetched)[i].castaway_id

\* C13: for a fixed set of reference rows and a fixed journeys row with a
\* null castaway_id, the backfill resolves to the same castaway_id, or leaves
\* the row unresolved, in whatever order the store returns the reference
\* rows.
C13_BackfillOrderIndependent ==
    jn.phase = "done" =>
        \A i \in 1..Len(jn.df.rows) :
            ("castaway_id" \in jn.df.columns /\ CleanText(jn.df.rows[i]["castaway_id"]) = NULL)
            => \A other \in Orders(jn.castaways) :
                  BackfillOutcome(i, other) = BackfillOutcome(i, jn.fetched)

\* row i of the raw frame goes through the backfill
Backfilled(i) ==
    /\ {"castaway_id", "version_season", "castaway"} \subseteq jn.df.columns
    /\ CleanText(jn.df.rows[i]["castaway_id"]) = NULL

\* the name and version_season of row i as the backfill reads them
RowName(i) == TextOrEmpty(jn.df.rows[i]["castaway"])
RowSeason(i) == TextOrEmpty(jn.df.rows[i]["version_season"])

\* the rows of bronze.castaways with an identifier and a name whose
\* version_season, blanks around it aside, is the one of row i
SeasonRows(i) ==
    {r \in jn.castaways :
        /\ r["castaway_id"] \notin {NULL, ""}
        /\ StrStrip(r["castaway"]) # ""
        /\ StrStrip(r["version_season"]) = RowSeason(i)}

\* how well the name of a reference row matches the name of row i under
\* step k: 1 exact case-insensitive name, 2 normalised name, 3 first token,
\* 4 normalised first token, 5 similarity of the normalised names
StepMatches(i, k, r) ==
    LET ref == NameLower(StrStrip(r["castaway"]))
        own == NameLower(RowName(i))
    IN  CASE k = 1 -> ref = own
          [] k = 2 -> NormaliseName(ref) = NormaliseName(own)
          [] k = 3 -> FirstToken(ref) = FirstToken(own)
          [] k = 4 -> NormaliseName(FirstToken(ref)) = NormaliseName(FirstToken(own))
          [] k = 5 -> /\ Ratio(NormaliseName(ref), NormaliseName(own)) >= 700
                      /\ \A q \in SeasonRows(i) :
                            Ratio(NormaliseName(NameLower(StrStrip(q["castaway"]))),
                                  NormaliseName(own))
                               <= Ratio(NormaliseName(ref), NormaliseName(own))

\* the identifiers step k finds for row i, and whether it yields one
StepCandidates(i, k) ==
    {r["castaway_id"] : r \in {q \in SeasonRows(i) : StepMatches(i, k, q)}}

StepYields(i, k) ==
    IF k \in {3, 4} THEN Cardinality(StepCandidates(i, k)) = 1
    ELSE StepCandidates(i, k) # {}

\* C25: the journeys backfill returns a castaway_id of the earliest of its
\* steps (exact case-insensitive name, normalised name, first token,
\* normalised first token, fuzzy similarity) that yields a candidate, and
\* nothing when no step does; a first-token step yields a candidate only
\* when exactly one castaway_id of the row's version_season shares the
\* token; the castaway_id returned is one of a reference row of the row's
\* version_season.
C25_EarliestStep ==
    jn.phase = "done" =>
        \A i \in 1..Len(jn.df.rows) :
            Backfilled(i) =>
                LET yielding == {k \in 1..5 : StepYields(i, k)}
                    outcome == BackfillOutcome(i, jn.fetched)
                IN  /\ IF yielding = {} THEN outcome = NULL
                       ELSE outcome \in StepCandidates(
                                i, CHOOSE k \in yielding : \A l \in yielding : k <= l)
                    /\ outcome # NULL =>
                          outcome \in {r["castaway_id"] : r \in SeasonRows(i)}

\* two rows of one season against a castaway named Rob C of that season
\* and a castaway named Rob of another season: the first row, Rob, is
\* resolved by its first token, the second, Robb, by similarity
C25_Witness ==
    /\ jn.phase = "done"
    /\ Len(jn.df.rows) = 2 /\ Backfilled(1) /\ Backfilled(2)
    /\ RowName(1) = "Rob" /\ RowName(2) = "Robb"
    /\ jn.castaways = {CastawayRow("c2", "Rob C", "s1"), CastawayRow("c1", "Rob", "s2")}
    /\ ~StepYields(1, 1) /\ ~StepYields(1, 2) /\ StepYields(1, 3)
    /\ \A k \in 1..4 : ~StepYields(2, k)
    /\ StepYields(2, 5)
    /\ BackfillOutcome(1, jn.fetched) = "c2"
    /\ BackfillOutcome(2, jn.fetched) = "c2"

(***************************************************************************)
(* Specification SpecStubs: one call of load_dataset_to_table on the       *)
(* challenge_results dataset, on raw frames of one row with every          *)
(* version_season, challenge_id and challenge_type of the model and        *)
(* frames of several rows with a few of them, with and without the         *)
(* columns the stub synthesis and the table ask for, against the contents  *)
(* of bronze.challenge_description below.                                  *)
(***************************************************************************)
ChallengeColumns == {"version_season", "challenge_id", "sog_id", "challenge_type", "result"}

ChallengeRow(version_season, challenge_id, challenge_type) ==
    Row3("version_season", "challenge_id", "sog_id", version_season, challenge_id, "3")
        @@ ("challenge_type" :> challenge_type) @@ ("result" :> "won")

\* the rows of a raw frame; few stands for the frames of several rows
ChallengeRows(few) ==
    {ChallengeRow(t[1], t[2], t[3]) :
        t \in IF few
              THEN {<<"s1", "1", "reward">>, <<"s1", "2", "reward">>,
                    <<"s1_", "1", NULL>>, <<"s1_", "2", "immunity">>}
              ELSE {"s1", "s1_", NULL} \X {"1", "2", NULL, "x", "1.5"}
                      \X {"reward", NULL}}

ChallengeFrames ==
    LET plain == {MkFrame(ChallengeColumns, rows) :
                     rows \in {<<r>> : r \in ChallengeRows(FALSE)}
                               \cup SeqsUpTo(ChallengeRows(TRUE), MaxStubRows)}
    IN  plain \cup {WithoutColumn(f, "challenge_type") : f \in plain}
              \cup {WithoutColumn(f, "result") : f \in plain}

DescriptionRow(version_season, challenge_id, run) ==
    [c \in SchemaColumns(TableSchema("challenge_description")) |->
        CASE c = "row_id" -> challenge_id
          [] c = "version_season" -> version_season
          [] c = "challenge_id" -> challenge_id
          [] c = "challenge_type" -> "reward"
          [] c = "name" -> "n1"
          [] c = "source_dataset" -> "challenge_description"
          [] c = "ingest_run_id" -> RunId(run)
          [] c = "ingested_at" -> Timestamp(0)]

\* the rows bronze.challenge_description holds before the call
DescriptionContents ==
    {<<>>, <<DescriptionRow("s1", "1", 0)>>, <<DescriptionRow("s1", "2", 0)>>,
     <<DescriptionRow("s1", "1", 0), DescriptionRow("s1", "2", 0)>>}

StubsInit ==
    /\ params \in [environment : {"dev"}, truncate_on_load : BOOLEAN,
                   nulls_distinct : {TRUE}]
    /\ \E description \in DescriptionContents :
          store = [t \in Tables |->
                     IF t = "challenge_description" THEN description ELSE <<>>]
    /\ REFERENCE_CACHE = <<>>
    /\ VALIDATION_SUMMARIES = <<>>
    /\ DATA_ISSUES = <<>>
    /\ current_run = 1
    /\ loadedInRun = {}
    /\ nloads = 0
    /\ last = NoLoad
    /\ prev = NoLoad
    /\ am = Idle /\ up = Idle /\ uq = Idle /\ fk = Idle /\ vh = Idle /\ jn = Idle
    /\ mn = Idle /\ ev = Idle

LoadChallengeResults(raw) ==
    /\ nloads = 0
    /\ LoadCall("challenge_results", raw, "None")

StubsNext == \E raw \in ChallengeFrames : LoadChallengeResults(raw)

SpecStubs == StubsInit /\ [][StubsNext]_vars

\* the (version_season, challenge_id) pairs of the incoming rows with both
\* values present, as the loader reads them: version_season stripped,
\* challenge_id a number
IncomingPairs ==
    {<<Strip(last.raw.rows[i]["version_season"]), last.raw.rows[i]["challenge_id"]>> :
        i \in {j \in 1..Len(last.raw.rows) :
                  /\ last.raw.rows[j]["version_season"] # NULL
                  /\ ToNumeric(last.raw.rows[j]["challenge_id"]) # NULL}}

\* the keys of the rows of bronze.challenge_description after the call
DescriptionKeys(rows) ==
    {<<rows[i]["version_season"], rows[i]["challenge_id"]>> : i \in 1..Len(rows)}

\* the stub rows bronze.challenge_description holds
SynthesizedRows ==
    {r \in Range(store["challenge_description"]) :
        r["source_dataset"] = "challenge_results_stub"}

\* the audit events of the call, in the ledger or in a validation summary
AuditEvents ==
    Range(DATA_ISSUES)
    \cup UNION {Range(VALIDATION_SUMMARIES[d].issues) : d \in DOMAIN VALIDATION_SUMMARIES}

\* the position of the first statement that wrote to the table, 0 for none
FirstWrite(writes, statement) ==
    IF \A k \in 1..Len(writes) : writes[k] # statement THEN 0
    ELSE CHOOSE k \in 1..Len(writes) :
            writes[k] = statement /\ \A j \in 1..(k - 1) : writes[j] # statement

\* C14: when a challenge_results load persists rows, every
\* (version_season, challenge_id) pair of the incoming rows with both values
\* present has a challenge_description row with that key in the store, no
\* statement wrote to challenge_description after the challenge_results rows
\* were persisted, and every synthesized stub row is among the rows of an
\* audit event of type challenge_description_backfill.
C14_ParentBeforeChild ==
    (nloads = 1 /\ last.dataset = "challenge_results") =>
        /\ "upsert:challenge_results" \in Range(last.writes) =>
              /\ IncomingPairs \subseteq DescriptionKeys(store["challenge_description"])
              /\ \A k \in 1..Len(last.writes) :
                    last.writes[k] = "upsert:challenge_description"
                       => k < FirstWrite(last.writes, "upsert:challenge_results")
        /\ \A r \in SynthesizedRows :
              \E e \in AuditEvents :
                 /\ e.issue_type = "challenge_description_backfill"
                 /\ r \in {StoredRow(e.result_rows[k], DOMAIN e.result_rows[k], DOMAIN r) :
                              k \in 1..Len(e.result_rows)}

\* two incoming rows, one with its parent row in the store and one without:
\* the stub is written, then both challenge_results rows
C14_Witness ==
    /\ nloads = 1 /\ last.dataset = "challenge_results"
    /\ last.error = "none"
    /\ IncomingPairs = {<<"s1", "1">>, <<"s1", "2">>}
    /\ last.writes = <<"upsert:challenge_description", "upsert:challenge_results">>
    /\ Cardinality(SynthesizedRows) = 1
    /\ Len(store["challenge_description"]) = 2
    /\ Len(store["challenge_results"]) = 2

(***************************************************************************)
(* Specification SpecLedger: a process that makes up to MaxCalls calls of  *)
(* load_dataset_to_table on challenge_description and challenge_results    *)
(* (validate_bronze_dataset and the stub synthesis run inside the loads),  *)
(* register_data_issue and append_dataset_issues, in any order. nloads     *)
(* counts the calls and is the clock of the timestamps.                    *)
(***************************************************************************)
LedgerDatasets == {"challenge_description", "challenge_results"}

LedgerFrames(ds) ==
    IF ds = "challenge_description"
    THEN {MkFrame({"version_season", "challenge_id", "challenge_type", "name"},
                  <<Row3("version_season", "challenge_id", "challenge_type",
                         "s1", id, "reward") @@ ("name" :> "n1")>>) : id \in {"1", NULL}}
    ELSE {MkFrame(ChallengeColumns, <<ChallengeRow("s1", id, "reward")>>) :
             id \in {"1", "2"}}

LedgerInit ==
    /\ params = [environment |-> "dev", truncate_on_load |-> FALSE, nulls_distinct |-> TRUE]
    /\ store = [t \in Tables |-> <<>>]
    /\ REFERENCE_CACHE = <<>>
    /\ VALIDATION_SUMMARIES = <<>>
    /\ DATA_ISSUES = <<>>
    /\ current_run = 1
    /\ loadedInRun = {}
    /\ nloads = 0
    /\ last = NoLoad
    /\ prev = NoLoad
    /\ am = Idle /\ up = Idle /\ uq = Idle /\ fk = Idle /\ vh = Idle /\ jn = Idle
    /\ mn = Idle /\ ev = Idle

LedgerLoad(ds, raw) ==
    /\ nloads < MaxCalls
    /\ LoadCall(ds, raw, "None")

\* register_data_issue
RegisterDataIssue(ds, issue_type) ==
    /\ nloads < MaxCalls
    /\ DATA_ISSUES' = Append(DATA_ISSUES, [dataset |-> ds, issue_type |-> issue_type,
                                            timestamp |-> Timestamp(nloads + 1)])
    /\ nloads' = nloads + 1
    /\ UNCHANGED <<mn, ev, vh, jn, params, store, REFERENCE_CACHE, VALIDATION_SUMMARIES,
                   current_run, loadedInRun, last, prev, am, up, uq, fk>>

\* append_dataset_issues: nothing without a summary; otherwise the events
\* of the dataset consumed and all but value_coercion added to its summary
AppendDatasetIssues(ds) ==
    /\ nloads < MaxCalls
    /\ IF ds \in DOMAIN VALIDATION_SUMMARIES
       THEN /\ VALIDATION_SUMMARIES' =
                  [VALIDATION_SUMMARIES EXCEPT
                      ![ds].issues = @ \o CollectedIssues(DATA_ISSUES, ds)]
            /\ DATA_ISSUES' = ConsumeDatasetIssues(DATA_ISSUES, ds)
       ELSE UNCHANGED <<VALIDATION_SUMMARIES, DATA_ISSUES>>
    /\ nloads' = nloads + 1
    /\ UNCHANGED <<mn, ev, vh, jn, params, store, REFERENCE_CACHE,
                   current_run, loadedInRun, last, prev, am, up, uq, fk>>

LedgerNext ==
    \/ \E ds \in LedgerDatasets : \E raw \in LedgerFrames(ds) : LedgerLoad(ds, raw)
    \/ \E ds \in LedgerDatasets : \E issue_type \in {"deduplicated_rows", "value_coercion"} :
          RegisterDataIssue(ds, issue_type)
    \/ \E ds \in LedgerDatasets : AppendDatasetIssues(ds)

SpecLedger == LedgerInit /\ [][LedgerNext]_vars

\* the number of times the event is counted in the summary of the dataset
Occurrences(e, ds) ==
    Cardinality({i \in 1..Len(VALIDATION_SUMMARIES[ds].issues) :
                    VALIDATION_SUMMARIES[ds].issues[i] = e})

\* C16: a remediation event is never counted twice: it appears at most once
\* in a validation summary, in the summary of one dataset only, and an event
\* that a summary holds has been drained from the ledger.
C16_EventCountedOnce ==
    \A ds \in DOMAIN VALIDATION_SUMMARIES :
        \A e \in Range(VALIDATION_SUMMARIES[ds].issues) :
            /\ Occurrences(e, ds) = 1
            /\ \A other \in DOMAIN VALIDATION_SUMMARIES \ {ds} :
                  e \notin Range(VALIDATION_SUMMARIES[other].issues)

(***************************************************************************)
(* Specification SpecSequence: a run that loads one dataset from a frame   *)
(* of one row and then another dataset from any of its raw frames.         *)
(***************************************************************************)
SequenceDatasets == Datasets \cup {"challenge_description"}

\* the raw frames of the later load
LaterFrames(ds) ==
    IF ds = "challenge_description" THEN LedgerFrames(ds) ELSE RawFrames(ds)

\* the raw frames of the earlier load
EarlierFrames(ds) == {f \in LaterFrames(ds) : Len(f.rows) = 1}

LoadEarlier(ds, raw) ==
    /\ nloads = 0
    /\ LoadCall(ds, raw, "None")

LoadLater(ds, raw) ==
    /\ nloads = 1
    /\ ds # last.dataset
    /\ LoadCall(ds, raw, "None")

SequenceNext ==
    \/ \E ds \in SequenceDatasets : \E raw \in EarlierFrames(ds) : LoadEarlier(ds, raw)
    \/ \E ds \in SequenceDatasets : \E raw \in LaterFrames(ds) : LoadLater(ds, raw)

SpecSequence == Init /\ [][SequenceNext]_vars

C20_WitnessTruncate ==
    /\ nloads = 2 /\ prev.error = "none" /\ prev.upsert.inserted = 1
    /\ last.writes = <<"truncate:castaway_scores">>
    /\ last.error = "RuntimeError"

(***************************************************************************)
(* Specification SpecEnv: the two guards of prod runs, require_prod_on_main *)
(* of gamebot_core/env.py and _validate_environment of                     *)
(* load_survivor_data.py, called once in any environment: the environment  *)
(* name, the value of GAMEBOT_CONTAINER_DEPLOYMENT and the outcome of git   *)
(* rev-parse --abbrev-ref HEAD. Texts the code takes prefixes of are       *)
(* sequences of characters.                                                *)
(***************************************************************************)
BranchMain == <<"m", "a", "i", "n">>
BranchFeature == <<"d", "e", "v">>
BranchRelease == <<"r", "e", "l", "e", "a", "s", "e", "/", "1">>
BranchDataRelease ==
    <<"d", "a", "t", "a", "-", "r", "e", "l", "e", "a", "s", "e", "/", "1">>
DetachedHead == <<"H", "E", "A", "D">>

\* Optional[str]
None == [none |-> TRUE, text |-> <<>>]
Some(text) == [none |-> FALSE, text |-> text]

\* str.startswith with a tuple of prefixes
StartsWith(text, prefixes) ==
    \E prefix \in prefixes :
        Len(text) >= Len(prefix) /\ SubSeq(text, 1, Len(prefix)) = prefix

\* str.lower() on the environment names and flag values of the model
LowerName(name) ==
    CASE name \in {"PROD", "Prod"} -> "prod"
      [] name \in {"TRUE", "True"} -> "true"
      [] OTHER -> name

\* subprocess running git: its output, or the exception it ends with
GitOutcomes ==
    {[error |-> "none", stdout |-> b] :
        b \in {BranchMain, BranchFeature, BranchRelease, BranchDataRelease, DetachedHead}}
    \cup {[error |-> e, stdout |-> <<>>] :
            e \in {"CalledProcessError", "FileNotFoundError", "PermissionError"}}

\* env.py, _run_git and current_git_branch: only CalledProcessError and
\* FileNotFoundError are turned into None
CurrentGitBranch(git) ==
    IF git.error = "none" THEN [raised |-> "none", value |-> Some(git.stdout)]
    ELSE IF git.error \in {"CalledProcessError", "FileNotFoundError"}
    THEN [raised |-> "none", value |-> None]
    ELSE [raised |-> git.error, value |-> None]

\* load_survivor_data.py, _current_git_branch: every OSError is turned
\* into None
DriverGitBranch(git) ==
    IF git.error = "none" THEN Some(git.stdout) ELSE None

\* require_prod_on_main: how the call ends
RequireProdOnMain(environment, container, git) ==
    IF LowerName(environment) # "prod" THEN "return"
    ELSE IF LowerName(container) = "true" THEN "return"
    ELSE IF CurrentGitBranch(git).raised # "none" THEN CurrentGitBranch(git).raised
    ELSE IF CurrentGitBranch(git).value.none THEN "RuntimeError"
    ELSE IF \/ CurrentGitBranch(git).value.text # BranchMain
            \/ ~StartsWith(CurrentGitBranch(git).value.text,
                           {SubSeq(BranchRelease, 1, 8), SubSeq(BranchDataRelease, 1, 13)})
    THEN "RuntimeError"
    ELSE "return"

\* _validate_environment: the exception it raises, if any
ValidateEnvironment(environment, branch) ==
    IF environment = "prod" /\ (branch.none \/ branch.text # BranchMain)
    THEN "RuntimeError" ELSE "none"

EnvInit ==
    /\ ev \in [phase : {"call"}, environment : {"dev", "prod", "PROD"},
                container : {"", "true", "True", "false"}, git : GitOutcomes]
    /\ am = Idle /\ up = Idle /\ uq = Idle /\ fk = Idle /\ vh = Idle /\ jn = Idle
    /\ mn = Idle
    /\ PipelineIdle

\* one call of require_prod_on_main(environment)
CallRequireProdOnMain ==
    /\ ev.phase = "call"
    /\ ev' = [phase |-> "done", environment |-> ev.environment,
              container |-> ev.container, git |-> ev.git,
              function |-> "require_prod_on_main",
              result |-> RequireProdOnMain(ev.environment, ev.container, ev.git)]
    /\ UNCHANGED <<mn, am, up, uq, fk, vh, jn, pipeline>>

\* one call of _validate_environment() with params.environment set
CallValidateEnvironment ==
    /\ ev.phase = "call"
    /\ ev' = [phase |-> "done", environment |-> ev.environment,
              container |-> ev.container, git |-> ev.git,
              function |-> "_validate_environment",
              result |-> IF ValidateEnvironment(ev.environment,
                                                DriverGitBranch(ev.git)) = "none"
                         THEN "return" ELSE "RuntimeError"]
    /\ UNCHANGED <<mn, am, up, uq, fk, vh, jn, pipeline>>

EnvNext ==
    \/ CallRequireProdOnMain
    \/ CallValidateEnvironment

SpecEnv == EnvInit /\ [][EnvNext]_vars

\* the branch git reported, when it reported one
ReportedBranch == IF ev.git.error = "none" THEN Some(ev.git.stdout) ELSE None

\* C24: require_prod_on_main returns without raising when the environment
\* is not prod, when GAMEBOT_CONTAINER_DEPLOYMENT is true, or when the
\* environment is prod and the current git branch is main; it raises
\* RuntimeError when the environment is prod and the branch cannot be
\* determined or is a branch other than main.
C24_RequireProdOnMain ==
    (ev.phase = "done" /\ ev.function = "require_prod_on_main") =>
        IF \/ LowerName(ev.environment) # "prod"
           \/ LowerName(ev.container) = "true"
           \/ ReportedBranch = Some(BranchMain)
        THEN ev.result = "return"
        ELSE ev.result = "RuntimeError"

(***************************************************************************)
(* Specification SpecMain: one run of main() of load_survivor_data.py over *)
(* MaxDatasets configured datasets. main() imports load_dataset_to_table,  *)
(* register_ingestion_run and finalize_ingestion_run from Utils/db_utils,  *)
(* which share one psycopg2 connection that is never rolled back.          *)
(***************************************************************************)
\* how a call of load_dataset_to_table ends, as main() and the connection
\* see it: it returns; it raises SchemaMismatchError before any statement
\* failed; _upsert_dataframe fails in the driver before a statement reaches
\* the server; or the server rejects the statement, which leaves the
\* transaction of the connection aborted. Both failures of the upsert are
\* wrapped in RuntimeError.
LoadOutcomes == {"ok", "SchemaMismatchError", "driver_error", "statement_error"}

LoadException(outcome) ==
    CASE outcome = "ok" -> "none"
      [] outcome = "SchemaMismatchError" -> "SchemaMismatchError"
      [] OTHER -> "RuntimeError"

\* what _current_git_branch gives: nothing, main, another branch
Branches == {None, Some(BranchMain), Some(BranchFeature)}

\* finalize_ingestion_run on the connection of m: in an aborted transaction
\* the UPDATE is refused and the driver raises; otherwise the status is
\* written and committed
FinalizeIngestionRun(m, status) ==
    IF m.txn = "aborted"
    THEN [m EXCEPT !.raised = "InFailedSqlTransaction"]
    ELSE [m EXCEPT !.updates = Append(@, status)]

MainInit ==
    /\ \E environment \in {"dev", "prod"} : \E branch \in Branches :
       \E connects \in BOOLEAN :
       \E outcomes \in [1..MaxDatasets -> LoadOutcomes] :
          mn = [pc |-> "validate", environment |-> environment, branch |-> branch,
                connects |-> connects, outcomes |-> outcomes,
                registered |-> FALSE, updates |-> <<>>, txn |-> "none",
                loaded |-> 0, load_raised |-> "none", raised |-> "none",
                conn |-> "none"]
    /\ am = Idle /\ up = Idle /\ uq = Idle /\ fk = Idle /\ vh = Idle /\ jn = Idle
    /\ ev = Idle
    /\ PipelineIdle

\* line 62
MainValidate ==
    /\ mn.pc = "validate"
    /\ mn' = IF ValidateEnvironment(mn.environment, mn.branch) # "none"
             THEN [mn EXCEPT !.pc = "done",
                             !.raised = ValidateEnvironment(mn.environment, mn.branch)]
             ELSE [mn EXCEPT !.pc = "connect"]
    /\ UNCHANGED <<ev, am, up, uq, fk, vh, jn, pipeline>>

\* lines 63-66: without a connection main() returns
MainConnect ==
    /\ mn.pc = "connect"
    /\ mn' = IF mn.connects THEN [mn EXCEPT !.pc = "register", !.conn = "open"]
             ELSE [mn EXCEPT !.pc = "done"]
    /\ UNCHANGED <<ev, am, up, uq, fk, vh, jn, pipeline>>

\* lines 69-91: the schemas initialised when needed, the run registered and
\* committed, the session settings committed
MainRegister ==
    /\ mn.pc = "register"
    /\ mn' = [mn EXCEPT !.pc = "load", !.registered = TRUE, !.txn = "idle"]
    /\ UNCHANGED <<ev, am, up, uq, fk, vh, jn, pipeline>>

\* lines 93-119: the next dataset of params.dataset_order loaded, an
\* exception logged and raised again
MainLoad ==
    /\ mn.pc = "load" /\ mn.loaded < MaxDatasets
    /\ LET outcome == mn.outcomes[mn.loaded + 1]
       IN  mn' = IF outcome = "ok"
                 THEN [mn EXCEPT !.loaded = @ + 1]
                 ELSE [mn EXCEPT !.pc = "except",
                                 !.load_raised = LoadException(outcome),
                                 !.raised = LoadException(outcome),
                                 !.txn = IF outcome = "statement_error"
                                         THEN "aborted" ELSE "open"]
    /\ UNCHANGED <<ev, am, up, uq, fk, vh, jn, pipeline>>

\* line 121, after the loop
MainSucceed ==
    /\ mn.pc = "load" /\ mn.loaded = MaxDatasets
    /\ mn' = [FinalizeIngestionRun(mn, "succeeded") EXCEPT !.pc = "finally"]
    /\ UNCHANGED <<ev, am, up, uq, fk, vh, jn, pipeline>>

\* lines 122-125: the run finalised as failed and the exception raised
\* again, unless finalize_ingestion_run raises itself
MainExcept ==
    /\ mn.pc = "except"
    /\ mn' = [FinalizeIngestionRun(mn, "failed") EXCEPT !.pc = "finally"]
    /\ UNCHANGED <<ev, am, up, uq, fk, vh, jn, pipeline>>

\* lines 126-128
MainFinally ==
    /\ mn.pc = "finally"
    /\ mn' = [mn EXCEPT !.pc = "done", !.conn = "closed"]
    /\ UNCHANGED <<ev, am, up, uq, fk, vh, jn, pipeline>>

MainNext ==
    \/ MainValidate
    \/ MainConnect
    \/ MainRegister
    \/ MainLoad
    \/ MainSucceed
    \/ MainExcept
    \/ MainFinally

SpecMain == MainInit /\ [][MainNext]_vars

\* C23: if the load of a dataset raised, including a failure of the upsert
\* at the storage layer, then when main() is over the latest status written
\* to the ingestion_runs record of the run is failed, succeeded was never
\* written, and an exception leaves main(); succeeded is written only after
\* every configured dataset has loaded.
C23_FailedRunVisible ==
    /\ (mn.pc = "done" /\ mn.load_raised # "none") =>
          /\ mn.updates # <<>>
          /\ mn.updates[Len(mn.updates)] = "failed"
          /\ \A i \in 1..Len(mn.updates) : mn.updates[i] # "succeeded"
          /\ mn.raised # "none"
    /\ (\E i \in 1..Len(mn.updates) : mn.updates[i] = "succeeded") =>
          mn.loaded = MaxDatasets

(***************************************************************************)
(* Specification SpecVoteKeys: one run in dev that loads                   *)
(* challenge_description, challenge_results and vote_history, each at most *)
(* once and in that order, any of them left out: the keys the vote_history *)
(* branch reads from bronze.challenge_description against the keys of the  *)
(* reference snapshot its foreign-key rule is checked with.                *)
(***************************************************************************)
\* raw vote_history frames of one or two rows
KeyVoteRows ==
    {VoteRow({"version_season", "challenge_id", "sog_id", "castaway_id"},
             t[1], t[2], "3", "c1") :
        t \in {"s1", "s1_"} \X {"1", "2", "3", NULL}}

KeyVoteFrames ==
    {MkFrame({"version_season", "challenge_id", "sog_id", "castaway_id"}, rows) :
        rows \in SeqsUpTo(KeyVoteRows, MaxVoteRows) \ {<<>>}}

VoteKeysInit ==
    /\ Init
    /\ params = [environment |-> "dev", truncate_on_load |-> FALSE,
                 nulls_distinct |-> TRUE]

LoadChallengeDescription(raw) ==
    /\ nloads = 0
    /\ LoadCall("challenge_description", raw, "None")

LoadChallengeResultsBefore(raw) ==
    /\ nloads <= 1
    /\ "challenge_results" \notin loadedInRun
    /\ LoadCall("challenge_results", raw, "None")

LoadVoteHistory(raw) ==
    /\ "vote_history" \notin loadedInRun
    /\ LoadCall("vote_history", raw, "None")

VoteKeysNext ==
    \/ \E raw \in LedgerFrames("challenge_description") : LoadChallengeDescription(raw)
    \/ \E raw \in LedgerFrames("challenge_results") : LoadChallengeResultsBefore(raw)
    \/ \E raw \in KeyVoteFrames : LoadVoteHistory(raw)

SpecVoteKeys == VoteKeysInit /\ [][VoteKeysNext]_vars

\* the result of the vote_history rule on (version_season, challenge_id)
ChallengeKeyRule ==
    last.foreign_keys[CHOOSE k \in 1..Len(last.foreign_keys) :
                         last.foreign_keys[k].referenced_table = "challenge_description"]

\* C28: every (version_season, challenge_id) key of a vote_history row that
\* the vote_history remediation finds in bronze.challenge_description, the
\* stub rows of the challenge_results load included, is accepted by the
\* foreign-key check of vote_history against the challenge_description
\* snapshot of the run: the rule does not report it as unmatched.
C28_AcceptedKeysPassForeignKey ==
    (last.dataset = "vote_history" /\ last.foreign_keys # <<>>) =>
        \A i \in 1..Len(last.validated.rows) :
            LET row == last.validated.rows[i]
            IN  (/\ row["version_season"] # NULL /\ row["challenge_id"] # NULL
                 /\ <<Strip(row["version_season"]), row["challenge_id"]>>
                       \in ValidKeys(Range(store["challenge_description"])))
                => /\ ChallengeKeyRule.status # "failed"
                      \/ <<row["version_season"], row["challenge_id"]>>
                            \notin Range(ChallengeKeyRule.sample_records)

(***************************************************************************)
(* Specification SpecCoercion: up to MaxCoercionLoads calls of             *)
(* load_dataset_to_table on castaway_details and castaway_scores with raw  *)
(* values that preprocess_dataframe turns into nulls: the textual null     *)
(* marker "none" in a text column, the text "x" in an integer column.      *)
(***************************************************************************)
MaxCoercionLoads == 2

CoercionFrames(ds) ==
    IF ds = "castaway_details"
    THEN {MkFrame({"castaway_id", "full_name"}, rows) :
             rows \in SeqsUpTo({("castaway_id" :> id) @@ ("full_name" :> name) :
                                   id \in {"c1", "c2"}, name \in {"n1", "none"}},
                               MaxLoadRows) \ {<<>>}}
    ELSE {MkFrame({"version_season", "castaway_id", "score"}, rows) :
             rows \in SeqsUpTo({Row3("version_season", "castaway_id", "score",
                                     "s1", id, score) :
                                   id \in {"c1", "c2"}, score \in {"7", "x"}},
                               MaxLoadRows) \ {<<>>}}

LoadCoerced(ds, raw) ==
    /\ nloads < MaxCoercionLoads
    /\ LoadCall(ds, raw, "None")

CoercionNext ==
    \E ds \in {"castaway_details", "castaway_scores"} :
        \E raw \in CoercionFrames(ds) : LoadCoerced(ds, raw)

SpecCoercion == VoteKeysInit /\ [][CoercionNext]_vars

(***************************************************************************)
(* Specification SpecTruncate: up to MaxTruncateLoads calls of             *)
(* load_dataset_to_table on castaway_details and auction_details, in dev   *)
(* or prod, with truncate_on_load set or not, and with any truncate        *)
(* argument: None, True or False, on dataframes of one or two rows.        *)
(***************************************************************************)
MaxTruncateLoads == 3

TruncateDatasets == {"castaway_details", "auction_details"}

\* raw dataframes of one and of two rows
TruncateFrames(ds) ==
    IF ds = "castaway_details"
    THEN {MkFrame({"castaway_id", "full_name"}, rows) :
             rows \in {<<("castaway_id" :> "c1") @@ ("full_name" :> "n1")>>,
                       <<("castaway_id" :> "c1") @@ ("full_name" :> "n1"),
                         ("castaway_id" :> "c2") @@ ("full_name" :> "n1")>>}}
    ELSE {MkFrame({"version_season", "auction_num", "item"},
                  <<Row3("version_season", "auction_num", "item", "s1", "1", "t1")>>)}

LoadWithTruncate(ds, raw, truncate) ==
    /\ nloads < MaxTruncateLoads
    /\ LoadCall(ds, raw, truncate)

TruncateNext ==
    \E ds \in TruncateDatasets : \E raw \in TruncateFrames(ds) :
        \E truncate \in {"None", "True", "False"} : LoadWithTruncate(ds, raw, truncate)

SpecTruncate == Init /\ [][TruncateNext]_vars

\* the call asked for a truncate load: by its argument, or by truncate_on_load
TruncateRequested ==
    \/ last.truncate = "True"
    \/ last.truncate = "None" /\ params.truncate_on_load

\* C30: in prod a call of load_dataset_to_table truncates no table, whatever
\* its truncate argument and truncate_on_load are: the table keeps the rows
\* it had, and a requested truncate load that reaches the write is an upsert.
C30_ProdNeverTruncates ==
    (nloads >= 1 /\ params.environment = "prod") =>
        /\ \A t \in Tables : ("truncate:" \o t) \notin Range(last.writes)
        /\ Len(last.tableAfter) >= Len(last.tableBefore)
        /\ (TruncateRequested /\ last.error = "none" /\ last.frame.rows # <<>>)
              => last.writes = <<"upsert:" \o last.dataset>>

\* prod, truncate = True on a table that holds rows: the load is an upsert
C30_Witness ==
    /\ nloads >= 1 /\ params.environment = "prod"
    /\ last.truncate = "True" /\ ~params.truncate_on_load
    /\ last.tableBefore # <<>>
    /\ last.error = "none"
    /\ last.writes = <<"upsert:" \o last.dataset>>
    /\ Len(last.tableAfter) >= Len(last.tableBefore)

\* prod, truncate_on_load set and no argument, on a table that holds rows
C30_WitnessSetting ==
    /\ nloads >= 1 /\ params.environment = "prod"
    /\ last.truncate = "None" /\ params.truncate_on_load
    /\ last.tableBefore # <<>>
    /\ last.error = "none"
    /\ last.writes = <<"upsert:" \o last.dataset>>

====
